---- MODULE Spec2Model ----
(***************************************************************************)
(* Multi-agent MiniGrid (gym_minigrid/minigrid.py): the per-tick engine    *)
(* MultiAgentMiniGridEnv.step with its conflict resolution                 *)
(* collision_checker, over the entity model (WorldObj and subclasses) and  *)
(* the world grid (Grid.get / Grid.set); the single-agent engine           *)
(* MiniGridEnv.step; the multi-goal variant MAUnlockDoorGoal.step; the     *)
(* array encoding of grids and observations (Grid.encode, Grid.ma_encode,  *)
(* Grid.decode, gen_obs), the data of hash(), the visibility sweep         *)
(* Grid.process_vis, and the engine with communicate flags                 *)
(* CommunicativeMultiAgentMiniGridEnv (step, gen_obs_grid_comm,            *)
(* gen_obs_comm).                                                          *)
(*                                                                         *)
(* Entities are object references: an entity is an identifier, its type    *)
(* and colour are fixed at construction, a Door's is_open / is_locked are  *)
(* mutable fields.  The grid maps a cell to the entity it references (or   *)
(* None), a carrying slot holds an entity reference (or None).             *)
(***************************************************************************)
EXTENDS Integers, Sequences, FiniteSets, TLC

\* ------------------------------------------------------------------------
\* Bounds of the model
\* ------------------------------------------------------------------------
GridWidth == 7
GridHeight == 4
MaxStepsPair == 3
MaxStepsTrio == 1
MaxStepsLong == 3
MaxStepsSeven == 2
MaxStepsGoals == 3
MaxStepsSolo == 4
MaxStepsKeys == 3
MaxStepsHazards == 3
MaxStepsTwo == 2
MaxObstacles == 2
MaxDepth == 2
MaxStepsBoxes == 3
MaxStepsComm == 2
MaxStepsRetrieve == 3
MaxStepsRing == 2
MaxStepsLocks == 3
MaxStepsBoth == 4

\* ------------------------------------------------------------------------
\* Program constants
\* ------------------------------------------------------------------------
None == 0

IDX_TO_COLOR == <<"red", "green", "blue", "purple", "yellow", "grey">>

NumColors == Len(IDX_TO_COLOR)

ActLeft == 0
ActRight == 1
ActForward == 2
ActPickup == 3
ActDrop == 4
ActToggle == 5
ActDone == 6

Actions == {ActLeft, ActRight, ActForward, ActPickup, ActDrop, ActToggle, ActDone}

\* an action index that is not a member of the enumeration
ActUnknown == ActDone + 1

DIR_TO_VEC == << <<1, 0>>, <<0, 1>>, <<-1, 0>>, <<0, -1>> >>

\* ------------------------------------------------------------------------
\* Entity model.  Identifiers 1..12 are the entities the generators of the
\* modelled episodes construct; every border cell holds a Wall of its own,
\* identified by WallBase + the cell's index in the grid array.
\* ------------------------------------------------------------------------
KeyRed == 1
BallGreen == 2
KeyGreen == 3
DoorGreen == 4
DoorYellow == 5
TheGoal == 6
TheLava == 7
GoalRed == 8
GoalGreen == 9
FloorBlue == 10
BoxRed == 11
BoxGreen == 12
DoorRed == 13
WallBase == 100

Doors == {DoorGreen, DoorYellow, DoorRed}

ObjType(o) ==
    CASE o = KeyRed -> "key"
      [] o = BallGreen -> "ball"
      [] o = KeyGreen -> "key"
      [] o = DoorGreen -> "door"
      [] o = DoorYellow -> "door"
      [] o = TheGoal -> "goal"
      [] o = TheLava -> "lava"
      [] o = GoalRed -> "goal"
      [] o = GoalGreen -> "goal"
      [] o = FloorBlue -> "floor"
      [] o = BoxRed -> "box"
      [] o = BoxGreen -> "box"
      [] o = DoorRed -> "door"
      [] OTHER -> "wall"

ObjColor(o) ==
    CASE o = KeyRed -> "red"
      [] o = BallGreen -> "green"
      [] o = KeyGreen -> "green"
      [] o = DoorGreen -> "green"
      [] o = DoorYellow -> "yellow"
      [] o = TheGoal -> "green"
      [] o = TheLava -> "red"
      [] o = GoalRed -> "red"
      [] o = GoalGreen -> "green"
      [] o = FloorBlue -> "blue"
      [] o = BoxRed -> "red"
      [] o = BoxGreen -> "green"
      [] o = DoorRed -> "red"
      [] OTHER -> "grey"

\* Box.contains (lines 349-351): the red box holds the green ball, the green
\* box holds nothing
Contains(o) == IF o = BoxRed THEN BallGreen ELSE None

\* ------------------------------------------------------------------------
\* World grid
\* ------------------------------------------------------------------------
Cells == (0 .. GridWidth - 1) \X (0 .. GridHeight - 1)

InBounds(p) == p[1] >= 0 /\ p[1] < GridWidth /\ p[2] >= 0 /\ p[2] < GridHeight

CellIndex(p) == p[2] * GridWidth + p[1]

IsBorder(p) == p[1] = 0 \/ p[2] = 0 \/ p[1] = GridWidth - 1 \/ p[2] = GridHeight - 1

WallRect == [p \in Cells |-> IF IsBorder(p) THEN WallBase + CellIndex(p) ELSE None]

PutObj(g, o, p) == [g EXCEPT ![p] = o]

\* ------------------------------------------------------------------------
\* State
\* ------------------------------------------------------------------------
VARIABLES
    grid,              \* Grid.grid: cell -> entity or None
    is_open,           \* Door.is_open of every Door
    is_locked,         \* Door.is_locked of every Door
    agent_poses,       \* agent -> <<x, y>>
    agent_dirs,        \* agent -> 0..3
    carrying_objects,  \* agent -> entity or None
    step_count,
    max_steps,
    done,              \* the done flag step() returned last
    raised,            \* the exception step() ended in, or "none"
    inputs,            \* agent -> the actions its controller chooses from
    actions,           \* the action vector of the last step() call
    snapshot,          \* the world as the last step() call found it
    verdicts,          \* what collision_checker returned for each agent in the last step()
    variant,           \* the environment class: "multi", "single" or "multigoal";
                       \* "two runs" for two instances of the multi-agent engine
    goal_poses,        \* multi-goal variant: colour -> cell of the goal of that colour
    reward,            \* the reward the engine's step() computed last, times RewardScale
    rewards,           \* multi-goal variant: the list of rewards step() returned last
    twin,              \* two runs: the second instance (its world, what its last
                       \* step() returned, whether it was fed the actions of the
                       \* first so far), "none" otherwise
    window,            \* the Grid a process_vis call works on, "none" otherwise
    window_mask,       \* the mask that process_vis call returned, {} before it
    orig_agent_poses,  \* communicative engine: the positions stored by the last
                       \* reset() or step()
    past_obs,          \* communicative engine: the observations stored with them
    combined_obs,      \* communicative engine: the private observations generated last
    shared_obs,        \* communicative engine: the observations step() returned last
    comm_actions,      \* communicative engine: the communicate flags of the last step()
    heard              \* history: orig_agent_poses and past_obs as the last step() read
                       \* them, and what the step() before it returned

vars == <<grid, is_open, is_locked, agent_poses, agent_dirs, carrying_objects,
          step_count, max_steps, done, raised, inputs, actions, snapshot, verdicts,
          variant, goal_poses, reward, rewards, twin, window, window_mask,
          orig_agent_poses, past_obs, combined_obs, shared_obs, comm_actions, heard>>

\* what only the observation functions and the communicative engine write
obsVars == <<window, window_mask, orig_agent_poses, past_obs, combined_obs, shared_obs,
             comm_actions, heard>>

World == [grid |-> grid, is_open |-> is_open, is_locked |-> is_locked,
          agent_poses |-> agent_poses, agent_dirs |-> agent_dirs,
          carrying_objects |-> carrying_objects]

AgentsOf(w) == DOMAIN w.agent_poses

NumAgents(w) == Cardinality(AgentsOf(w))

\* ------------------------------------------------------------------------
\* Capability predicates of the entity model
\* ------------------------------------------------------------------------
\* An overlap test every entity passes, a Wall too.
OverlapsAnything(w, o) == TRUE

CanOverlap(w, o) ==
    \/ ObjType(o) \in {"goal", "floor", "lava"}
    \/ ObjType(o) = "door" /\ w.is_open[o]

\* A pickup test that looks at the entity's type only.
LiftableType(o, agent_id) == ObjType(o) \in {"key", "ball", "box"}

MaCanPickup(o, agent_id) ==
    /\ ObjType(o) \in {"key", "ball", "box"}
    /\ IDX_TO_COLOR[(agent_id % NumColors) + 1] = ObjColor(o)

\* A check of the carried entity that accepts a key of any colour.
HasAnyKey(w, o, agent_id) ==
    LET c == w.carrying_objects[agent_id] IN
    c # None /\ ObjType(c) = "key"

HasMatchingKey(w, o, agent_id) ==
    LET c == w.carrying_objects[agent_id] IN
    c # None /\ ObjType(c) = "key" /\ ObjColor(c) = ObjColor(o)

MaCheckToggle(w, o, agent_id) ==
    /\ ObjType(o) = "door"
    /\ IF w.is_locked[o] THEN HasMatchingKey(w, o, agent_id) ELSE TRUE

\* A toggle that opens and closes a Door whether it is locked or not.
MaToggleAnyDoor(w, o, agent_id) ==
    IF ObjType(o) # "door" THEN w
    ELSE [w EXCEPT !.is_open[o] = ~w.is_open[o]]

MaToggle(w, o, agent_id) ==
    IF ObjType(o) # "door" THEN w
    ELSE IF w.is_locked[o]
         THEN IF HasMatchingKey(w, o, agent_id)
              THEN [w EXCEPT !.is_locked[o] = FALSE, !.is_open[o] = TRUE]
              ELSE w
         ELSE [w EXCEPT !.is_open[o] = ~w.is_open[o]]

\* ------------------------------------------------------------------------
\* MultiAgentMiniGridEnv.front_pos
\* ------------------------------------------------------------------------
DirVec(w, agent_id) == DIR_TO_VEC[w.agent_dirs[agent_id] + 1]

FrontPos(w, agent_id) ==
    <<w.agent_poses[agent_id][1] + DirVec(w, agent_id)[1],
      w.agent_poses[agent_id][2] + DirVec(w, agent_id)[2]>>

\* ------------------------------------------------------------------------
\* step(): the maps built from the pre-tick world `pre` and the action
\* vector `acts` before any action is applied (lines 2077-2131).  A Python
\* dict keyed by cell is modelled by the operator that looks a cell up:
\* next_poses(c, p) is the list next_poses[p] (as a set: only its length and
\* membership are read), empty when p is no key of the dict.
\* ------------------------------------------------------------------------
StepContext(pre, acts) ==
    [agents |-> AgentsOf(pre),
     acts |-> acts,
     poses |-> pre.agent_poses,
     fwd_poses |-> [a \in AgentsOf(pre) |-> FrontPos(pre, a)],
     fwd_cells |-> [a \in AgentsOf(pre) |-> pre.grid[FrontPos(pre, a)]],
     can_pickup |-> [a \in AgentsOf(pre) |->
                        /\ pre.grid[FrontPos(pre, a)] # None
                        /\ MaCanPickup(pre.grid[FrontPos(pre, a)], a)],
     can_toggle |-> [a \in AgentsOf(pre) |->
                        /\ pre.grid[FrontPos(pre, a)] # None
                        /\ MaCheckToggle(pre, pre.grid[FrontPos(pre, a)], a)],
     door_open |-> pre.is_open]

Max(S) == CHOOSE x \in S : \A y \in S : y <= x

InCurrPoses(c, p) == \E a \in c.agents : c.poses[a] = p

curr_poses(c, p) == Max({a \in c.agents : c.poses[a] = p})

next_poses(c, p) ==
    {a \in c.agents : IF c.acts[a] # ActForward THEN c.poses[a] = p
                      ELSE c.fwd_poses[a] = p}

drop_locations(c, p) ==
    {a \in c.agents : c.acts[a] = ActDrop /\ c.fwd_poses[a] = p}

pickup_locations(c, p) ==
    {a \in c.agents : c.acts[a] = ActPickup /\ c.can_pickup[a] /\ c.fwd_poses[a] = p}

close_door_locations(c, p) ==
    {a \in c.agents : /\ c.acts[a] = ActToggle /\ c.can_toggle[a] /\ c.fwd_poses[a] = p
                      /\ c.door_open[c.fwd_cells[a]]}

\* Variant of open_door_locations that lists every agent toggling the
\* closed Door, permitted or not: C35 is sensitive to it.
ClosedDoorTogglers(c, p) ==
    {a \in c.agents : /\ c.acts[a] = ActToggle /\ c.fwd_poses[a] = p
                      /\ c.fwd_cells[a] \in Doors
                      /\ ~c.door_open[c.fwd_cells[a]]}

open_door_locations(c, p) ==
    {a \in c.agents : /\ c.acts[a] = ActToggle /\ c.can_toggle[a] /\ c.fwd_poses[a] = p
                      /\ ~c.door_open[c.fwd_cells[a]]}

\* ------------------------------------------------------------------------
\* collision_checker (lines 1976-2069), evaluated against the live world w
\* (self.agent_poses, self.carrying_objects and the Doors' is_open are read
\* from the object as it is when the check runs).  The recursion follows the
\* agent standing in the forward cell; `seen` holds the agents already on
\* the call stack: meeting one of them again means the recursion never
\* returns, which Python ends with a RecursionError.
\* ------------------------------------------------------------------------
\* Variant of WorldAllowsForward that leaves the Door about to be opened out
\* (the condition of line 2149): C3 is sensitive to it.
WorldAllowsForwardAsApplied(c, w, a) ==
    \/ c.fwd_cells[a] = None
    \/ CanOverlap(w, c.fwd_cells[a])
    \/ Cardinality(pickup_locations(c, c.fwd_poses[a])) = 1

WorldAllowsForward(c, w, a) ==
    \/ c.fwd_cells[a] = None
    \/ CanOverlap(w, c.fwd_cells[a])
    \/ Cardinality(pickup_locations(c, c.fwd_poses[a])) = 1
    \/ Cardinality(open_door_locations(c, c.fwd_poses[a])) = 1

\* Variant of HeadOn that takes every occupied forward cell for a head-on
\* meeting, so that no agent follows another: C6 is sensitive to it.
HeadOnAnyOccupant(c, w, a) == InCurrPoses(c, c.fwd_poses[a])

HeadOn(c, w, a) ==
    /\ next_poses(c, w.agent_poses[a]) # {}
    /\ curr_poses(c, c.fwd_poses[a]) \in next_poses(c, w.agent_poses[a])

WorldAllowsDrop(c, w, a) ==
    /\ \/ c.fwd_cells[a] = None
       \/ Cardinality(pickup_locations(c, c.fwd_poses[a])) = 1
    /\ w.carrying_objects[a] # None

\* Variant of ForwardContested that does not count the movers into the
\* cell: C4 is sensitive to it.
ForwardContestedUncounted(c, fp) ==
    \/ drop_locations(c, fp) # {}
    \/ close_door_locations(c, fp) # {}

\* Variant of ForwardContested that counts the movers only: C34 is
\* sensitive to it.
ForwardContestedByMovers(c, fp) == Cardinality(next_poses(c, fp)) > 1

\* line 1992: other agents trying to access the forward cell of a mover
ForwardContested(c, fp) ==
    \/ Cardinality(next_poses(c, fp)) > 1
    \/ drop_locations(c, fp) # {}
    \/ close_door_locations(c, fp) # {}

\* Variant of DropContested that does not count the droppers into the
\* cell: C7 is sensitive to it.
DropContestedUncounted(c, fp) == next_poses(c, fp) # {}

\* line 2020: other agents trying to access the cell an agent drops into
DropContested(c, fp) ==
    \/ next_poses(c, fp) # {}
    \/ Cardinality(drop_locations(c, fp)) > 1

RECURSIVE collision_checker(_, _, _, _)
collision_checker(c, w, agent_id, seen) ==
    LET fp == c.fwd_poses[agent_id]
        act == c.acts[agent_id]
        recurse ==
            IF curr_poses(c, fp) \in seen \cup {agent_id}
            THEN "RecursionError"
            ELSE collision_checker(c, w, curr_poses(c, fp), seen \cup {agent_id})
    IN
    IF act \in {ActLeft, ActRight, ActDone} THEN "True"
    ELSE IF act = ActForward THEN
        IF WorldAllowsForward(c, w, agent_id) THEN
            IF ForwardContested(c, fp) THEN "False"
            ELSE IF InCurrPoses(c, fp) THEN
                IF HeadOn(c, w, agent_id) THEN "False" ELSE recurse
            ELSE "True"
        ELSE "False"
    ELSE IF act = ActDrop THEN
        IF WorldAllowsDrop(c, w, agent_id) THEN
            IF DropContested(c, fp) THEN "False"
            ELSE IF InCurrPoses(c, fp) THEN recurse
            ELSE "True"
        ELSE "False"
    ELSE IF act = ActPickup THEN
        IF /\ agent_id \in pickup_locations(c, fp)
           /\ Cardinality(pickup_locations(c, fp)) = 1
        THEN "True" ELSE "False"
    ELSE IF act = ActToggle THEN
        IF /\ agent_id \in close_door_locations(c, fp)
           /\ Cardinality(close_door_locations(c, fp)) = 1
        THEN
            IF next_poses(c, fp) # {} THEN "False"
            ELSE IF InCurrPoses(c, fp) THEN recurse
            ELSE "True"
        ELSE IF /\ agent_id \in open_door_locations(c, fp)
                /\ Cardinality(open_door_locations(c, fp)) = 1
        THEN "True"
        ELSE "False"
    ELSE "False"

\* ------------------------------------------------------------------------
\* step(), lines 2137-2182: the effect of agent_id's action once
\* collision_checker has returned True for it.  L is the state of the loop:
\* the live world L.w, the local `done`, and `rewarded`: whether the local
\* `reward` has been assigned self._reward().
\* ------------------------------------------------------------------------
ApplyForward(c, L, agent_id) ==
    LET cell == c.fwd_cells[agent_id]
        fp == c.fwd_poses[agent_id]
        moves == \/ cell = None
                 \/ CanOverlap(L.w, cell)
                 \/ Cardinality(pickup_locations(c, fp)) = 1
    IN [w |-> IF moves THEN [L.w EXCEPT !.agent_poses[agent_id] = fp] ELSE L.w,
        done |-> L.done \/ (cell # None /\ ObjType(cell) \in {"goal", "lava"}),
        rewarded |-> L.rewarded \/ (cell # None /\ ObjType(cell) = "goal")]

\* Variant of ApplyPickup that leaves the entity in its cell (no
\* grid.set(None)): C9 is sensitive to it.
ApplyPickupKeepingCell(c, L, agent_id) ==
    LET fp == c.fwd_poses[agent_id] IN
    IF /\ agent_id \in pickup_locations(c, fp)
       /\ Cardinality(pickup_locations(c, fp)) = 1
       /\ L.w.carrying_objects[agent_id] = None
    THEN [L EXCEPT !.w.carrying_objects[agent_id] = c.fwd_cells[agent_id]]
    ELSE L

ApplyPickup(c, L, agent_id) ==
    LET fp == c.fwd_poses[agent_id] IN
    IF /\ agent_id \in pickup_locations(c, fp)
       /\ Cardinality(pickup_locations(c, fp)) = 1
       /\ L.w.carrying_objects[agent_id] = None
    THEN [L EXCEPT !.w.carrying_objects[agent_id] = c.fwd_cells[agent_id],
                   !.w.grid[fp] = None]
    ELSE L

ApplyDrop(c, L, agent_id) ==
    LET fp == c.fwd_poses[agent_id] IN
    IF \/ c.fwd_cells[agent_id] = None /\ L.w.carrying_objects[agent_id] # None
       \/ Cardinality(pickup_locations(c, fp)) = 1
    THEN [L EXCEPT !.w.grid[fp] = L.w.carrying_objects[agent_id],
                   !.w.carrying_objects[agent_id] = None]
    ELSE L

ApplyToggle(c, L, agent_id) ==
    IF c.fwd_cells[agent_id] # None
    THEN [L EXCEPT !.w = MaToggle(L.w, c.fwd_cells[agent_id], agent_id)]
    ELSE L

\* The effect of an allowed action with turn-left turning as turn-right does.
ApplyActionLeftAsRight(c, L, agent_id) ==
    LET act == c.acts[agent_id]
        d == L.w.agent_dirs[agent_id]
    IN
    IF act \in {ActLeft, ActRight}
    THEN [L EXCEPT !.w.agent_dirs[agent_id] = (d + 1) % 4]
    ELSE IF act = ActForward THEN ApplyForward(c, L, agent_id)
    ELSE IF act = ActPickup THEN ApplyPickup(c, L, agent_id)
    ELSE IF act = ActDrop THEN ApplyDrop(c, L, agent_id)
    ELSE IF act = ActToggle THEN ApplyToggle(c, L, agent_id)
    ELSE L

ApplyAction(c, L, agent_id) ==
    LET act == c.acts[agent_id]
        d == L.w.agent_dirs[agent_id]
    IN
    IF act = ActLeft
    THEN [L EXCEPT !.w.agent_dirs[agent_id] = IF d - 1 < 0 THEN d - 1 + 4 ELSE d - 1]
    ELSE IF act = ActRight
    THEN [L EXCEPT !.w.agent_dirs[agent_id] = (d + 1) % 4]
    ELSE IF act = ActForward THEN ApplyForward(c, L, agent_id)
    ELSE IF act = ActPickup THEN ApplyPickup(c, L, agent_id)
    ELSE IF act = ActDrop THEN ApplyDrop(c, L, agent_id)
    ELSE IF act = ActToggle THEN ApplyToggle(c, L, agent_id)
    ELSE L

\* ------------------------------------------------------------------------
\* step(), lines 2133-2182: the check-and-apply loop.  `order` is the
\* sequence in which the agents are taken; the code takes them by
\* increasing index (IndexOrder).  R carries the loop state, the verdicts
\* returned so far and the exception raised, if any.
\* ------------------------------------------------------------------------
IndexOrder(n) == [k \in 1 .. n |-> k - 1]

RECURSIVE StepLoop(_, _, _, _)
StepLoop(c, order, k, R) ==
    IF k > Len(order) THEN R
    ELSE LET a == order[k]
             v == collision_checker(c, R.L.w, a, {})
         IN IF v = "RecursionError"
            THEN [R EXCEPT !.raised = "RecursionError", !.verdicts[a] = v]
            ELSE IF v = "True" /\ c.acts[a] \notin Actions
            THEN \* else: assert False, "unknown action" (lines 2181-2182)
                 [R EXCEPT !.raised = "AssertionError", !.verdicts[a] = v]
            ELSE StepLoop(c, order, k + 1,
                          [R EXCEPT !.L = IF v = "True" THEN ApplyAction(c, R.L, a)
                                          ELSE R.L,
                                    !.verdicts[a] = v])

\* step() as a function of the pre-tick world: Grid.get asserts that every
\* forward cell lies in the grid (line 2081) before anything is changed.
StepResult(pre, acts, order) ==
    IF \E a \in AgentsOf(pre) : ~InBounds(FrontPos(pre, a))
    THEN [L |-> [w |-> pre, done |-> FALSE, rewarded |-> FALSE],
          raised |-> "AssertionError",
          verdicts |-> [a \in AgentsOf(pre) |-> "none"]]
    ELSE StepLoop(StepContext(pre, acts), order, 1,
                  [L |-> [w |-> pre, done |-> FALSE, rewarded |-> FALSE],
                   raised |-> "none",
                   verdicts |-> [a \in AgentsOf(pre) |-> "none"]])

\* ------------------------------------------------------------------------
\* Episodes.  reset() leaves the agents on distinct empty cells, nothing
\* carried and the step counter at zero (lines 1580-1607, place_obj lines
\* 1805-1815).  Four families of episodes of the multi-agent engine are
\* modelled here, each with the actions the controller of every agent
\* chooses from: Pair (all seven actions), Trio (left, forward, pickup, drop,
\* toggle), Long (the trio's first start followed for more ticks, two to
\* four actions per agent) and Seven (below).  Further down: Keys and
\* Hazards (multi-agent engine), Goals (multi-goal variant), Solo
\* (single-agent engine) and the two instances stepped together.
\*
\* Pair: two agents next to the entities of their colours
\*      W  K0 a0 K1 .  .  W        K0 red key, K1 green key
\*      W  .  B1 a1 Dg .  W        B1 green ball, Dg locked green door
\* Trio: three agents in a room with a closed yellow door, a goal and lava
\*      W  .  .  Dy .  G  W
\*      W  .  .  .  .  L  W
\* ------------------------------------------------------------------------
PairGrid ==
    PutObj(PutObj(PutObj(PutObj(WallRect, KeyRed, <<1, 1>>), KeyGreen, <<3, 1>>),
                  BallGreen, <<2, 2>>), DoorGreen, <<4, 2>>)

TrioGrid ==
    PutObj(PutObj(PutObj(WallRect, DoorYellow, <<3, 1>>), TheGoal, <<5, 1>>),
           TheLava, <<5, 2>>)

\* The trio's room with a green key on the cell three starts face.
TrioKeyGrid ==
    PutObj(PutObj(PutObj(PutObj(WallRect, DoorYellow, <<3, 1>>), TheGoal, <<5, 1>>),
                  TheLava, <<5, 2>>), KeyGreen, <<2, 2>>)

Right == 0
Down == 1
Left == 2
Up == 3

\* Start poses <<cell, direction>> of the trio, before indices are assigned.
TrioStarts ==
    { << <<<<1, 1>>, Right>>, <<<<2, 1>>, Right>>, <<<<4, 1>>, Left>> >>,
      << <<<<1, 2>>, Right>>, <<<<2, 2>>, Right>>, <<<<3, 2>>, Right>> >>,
      << <<<<1, 2>>, Right>>, <<<<2, 2>>, Right>>, <<<<3, 2>>, Left>> >>,
      << <<<<1, 2>>, Right>>, <<<<3, 2>>, Left>>, <<<<2, 1>>, Down>> >>,
      << <<<<1, 2>>, Right>>, <<<<2, 2>>, Right>>, <<<<2, 1>>, Down>> >>,
      << <<<<2, 1>>, Right>>, <<<<4, 1>>, Left>>, <<<<3, 2>>, Up>> >> }

Converging == << <<<<1, 2>>, Right>>, <<<<3, 2>>, Left>>, <<<<2, 1>>, Down>> >>

TrioWorlds ==
    {<<TrioGrid, st>> : st \in TrioStarts} \cup {<<TrioKeyGrid, Converging>>}

InitCounters ==
    /\ carrying_objects = [a \in DOMAIN agent_poses |-> None]
    /\ reward = 0
    /\ rewards = <<>>
    /\ step_count = 0
    /\ done = FALSE
    /\ raised = "none"
    /\ actions = [a \in DOMAIN agent_poses |-> ActDone]
    /\ verdicts = [a \in DOMAIN agent_poses |-> "none"]
    /\ snapshot = World

\* the engines without communication store no observation
NoObservations ==
    /\ window = "none"
    /\ window_mask = {}
    /\ orig_agent_poses = "none"
    /\ past_obs = "none"
    /\ combined_obs = "none"
    /\ shared_obs = "none"
    /\ comm_actions = "none"
    /\ heard = "none"

\* the episodes of MultiAgentMiniGridEnv itself
InitCommon ==
    /\ InitCounters
    /\ variant = "multi"
    /\ goal_poses = <<>>
    /\ twin = "none"
    /\ NoObservations

InitPair ==
    /\ grid = PairGrid
    /\ is_open = [d \in Doors |-> FALSE]
    /\ is_locked = [d \in Doors |-> d = DoorGreen]
    /\ agent_poses = [a \in 0 .. 1 |-> IF a = 0 THEN <<2, 1>> ELSE <<3, 2>>]
    /\ \E d1 \in {Left, Up} : agent_dirs = [a \in 0 .. 1 |-> IF a = 0 THEN Left ELSE d1]
    /\ max_steps = MaxStepsPair
    /\ inputs = [a \in 0 .. 1 |-> Actions]
    /\ InitCommon

InitTrio ==
    /\ is_open = [d \in Doors |-> FALSE]
    /\ is_locked = [d \in Doors |-> d = DoorGreen]
    /\ \E gs \in TrioWorlds : \E o \in {<<0, 1, 2>>, <<2, 1, 0>>} :
          /\ grid = gs[1]
          /\ agent_poses = [a \in 0 .. 2 |-> gs[2][o[a + 1] + 1][1]]
          /\ agent_dirs = [a \in 0 .. 2 |-> gs[2][o[a + 1] + 1][2]]
    /\ max_steps = MaxStepsTrio
    /\ inputs = [a \in 0 .. 2 |-> {ActLeft, ActForward, ActPickup, ActDrop, ActToggle}]
    /\ InitCommon

InitLong ==
    /\ grid = TrioGrid
    /\ is_open = [d \in Doors |-> FALSE]
    /\ is_locked = [d \in Doors |-> d = DoorGreen]
    /\ agent_poses = [a \in 0 .. 2 |-> <<<<1, 1>>, <<2, 1>>, <<4, 1>>>>[a + 1]]
    /\ agent_dirs = [a \in 0 .. 2 |-> <<Right, Right, Left>>[a + 1]]
    /\ max_steps = MaxStepsLong
    /\ inputs = [a \in 0 .. 2 |-> <<{ActForward, ActDone},
                                   {ActForward, ActRight, ActToggle, ActDone},
                                   {ActForward, ActToggle}>>[a + 1]]
    /\ InitCommon

\* Seven: seven agents, so that agents 0 and 6 have the same colour
\* (IDX_TO_COLOR[agent_id % len(COLOR_NAMES)], lines 315, 340, 357) and both
\* may pick the red key up; agents 0, 1 and 6 choose among forward, pickup,
\* drop and done, the others stay idle (done).
\*      W  a0 K0 a6 a2 a3 W        a0 faces right, a6 left, a1 up,
\*      W  .  a1 .  a4 a5 W        a2..a5 face the wall above or below
SevenGrid == PutObj(WallRect, KeyRed, <<2, 1>>)

SevenPoses ==
    << <<1, 1>>, <<2, 2>>, <<4, 1>>, <<5, 1>>, <<4, 2>>, <<5, 2>>, <<3, 1>> >>

SevenDirs == << Right, Up, Up, Up, Down, Down, Left >>

InitSeven ==
    /\ grid = SevenGrid
    /\ is_open = [d \in Doors |-> FALSE]
    /\ is_locked = [d \in Doors |-> d = DoorGreen]
    /\ agent_poses = [a \in 0 .. 6 |-> SevenPoses[a + 1]]
    /\ agent_dirs = [a \in 0 .. 6 |-> SevenDirs[a + 1]]
    /\ max_steps = MaxStepsSeven
    /\ inputs = [a \in 0 .. 6 |-> IF a \in {0, 1, 6}
                                  THEN {ActForward, ActPickup, ActDrop, ActDone}
                                  ELSE {ActDone}]
    /\ InitCommon

Init == InitPair \/ InitTrio \/ InitLong \/ InitSeven

\* ------------------------------------------------------------------------
\* step(actions)
\* ------------------------------------------------------------------------
\* _reward() (lines 1696-1701), 1 - 0.9 * (step_count / max_steps), as the
\* exact fraction Reward(k, m) / RewardScale(m); step_count is k, already
\* incremented by step().
RewardScale(m) == 10 * m

\* A reward that does not decay with the step count.
RewardFlat(k, m) == 10 * m

Reward(k, m) == 10 * m - 9 * k

Step(acts) ==
    /\ variant = "multi"
    /\ raised = "none"
    /\ step_count < max_steps
    /\ \E r \in {StepResult(World, acts, IndexOrder(NumAgents(World)))} :
        /\ grid' = r.L.w.grid
        /\ is_open' = r.L.w.is_open
        /\ is_locked' = r.L.w.is_locked
        /\ agent_poses' = r.L.w.agent_poses
        /\ agent_dirs' = r.L.w.agent_dirs
        /\ carrying_objects' = r.L.w.carrying_objects
        /\ raised' = r.raised
        /\ verdicts' = r.verdicts
        /\ done' = (r.L.done \/ step_count + 1 >= max_steps)
        /\ reward' = IF r.L.rewarded THEN Reward(step_count + 1, max_steps) ELSE 0
    /\ step_count' = step_count + 1
    /\ actions' = acts
    /\ snapshot' = World
    /\ UNCHANGED <<max_steps, inputs, variant, goal_poses, rewards, twin, obsVars>>

\* the action vectors for agents 0 .. n - 1 the controllers may choose
RECURSIVE ActionVectors(_, _)
ActionVectors(inp, n) ==
    IF n = 0 THEN {<<>>}
    ELSE {Append(v, x) : v \in ActionVectors(inp, n - 1), x \in inp[n - 1]}

Next ==
    \E v \in ActionVectors(inputs, NumAgents(World)) :
        Step([a \in DOMAIN agent_poses |-> v[a + 1]])

Spec == Init /\ [][Next]_vars

\* ------------------------------------------------------------------------
\* The array encoding of a grid: WorldObj.encode, Door.encode, Grid.encode,
\* WorldObj.decode, Grid.decode.  An encoded cell is the triple
\* <<type index, colour index, state>>; a decoded entity is the record of
\* the constructor's result.
\* ------------------------------------------------------------------------
IDX_TO_OBJECT ==
    <<"unseen", "empty", "wall", "floor", "door", "key", "ball", "box", "goal",
      "lava", "agent">>

OBJECT_TO_IDX(type) == CHOOSE i \in 0 .. Len(IDX_TO_OBJECT) - 1 : IDX_TO_OBJECT[i + 1] = type

COLOR_TO_IDX(color) == CHOOSE i \in 0 .. NumColors - 1 : IDX_TO_COLOR[i + 1] = color

\* the entity a constructor call returns
Obj(type, color, open, locked) ==
    [type |-> type, color |-> color, is_open |-> open, is_locked |-> locked]

\* None as the value of a cell of a decoded or observed grid
NoObj == Obj("none", "none", FALSE, FALSE)

\* the entity o as it is in world w
ObjIn(w, o) ==
    IF ObjType(o) = "door"
    THEN Obj("door", ObjColor(o), w.is_open[o], w.is_locked[o])
    ELSE Obj(ObjType(o), ObjColor(o), FALSE, FALSE)

\* WorldObj.encode (lines 124-126) and Door.encode (lines 272-283)
ObjEncode(v) ==
    <<OBJECT_TO_IDX(v.type), COLOR_TO_IDX(v.color),
      IF v.type = "door"
      THEN IF v.is_open THEN 0 ELSE IF v.is_locked THEN 2 ELSE 1
      ELSE 0>>

\* Grid.encode (lines 686-709) with the default, fully true, mask
GridEncode(w) ==
    [p \in Cells |-> IF w.grid[p] = None THEN <<OBJECT_TO_IDX("empty"), 0, 0>>
                                         ELSE ObjEncode(ObjIn(w, w.grid[p]))]

\* WorldObj.decode (lines 128-161)
WorldObjDecode(type_idx, color_idx, state) ==
    IF type_idx + 1 \notin DOMAIN IDX_TO_OBJECT \/ color_idx + 1 \notin DOMAIN IDX_TO_COLOR
    THEN [raised |-> "KeyError", v |-> NoObj]
    ELSE LET obj_type == IDX_TO_OBJECT[type_idx + 1]
             color == IDX_TO_COLOR[color_idx + 1]
             open == state = 0
             locked == state = 2
         IN IF obj_type \in {"empty", "unseen"} THEN [raised |-> "none", v |-> NoObj]
            ELSE IF obj_type \in {"wall", "floor", "ball", "key", "box"}
            THEN [raised |-> "none", v |-> Obj(obj_type, color, FALSE, FALSE)]
            ELSE IF obj_type = "door"
            THEN [raised |-> "none", v |-> Obj("door", color, open, locked)]
            ELSE IF obj_type = "goal"
            THEN [raised |-> "none", v |-> Obj("goal", "green", FALSE, FALSE)]
            ELSE IF obj_type = "lava"
            THEN [raised |-> "none", v |-> Obj("lava", "red", FALSE, FALSE)]
            ELSE [raised |-> "AssertionError", v |-> NoObj]

\* Grid.decode (lines 748-767): the decoded cells and the first error
GridDecode(array) ==
    LET cells == [p \in DOMAIN array |->
                    WorldObjDecode(array[p][1], array[p][2], array[p][3])]
    IN [raised |-> IF \A p \in DOMAIN array : cells[p].raised = "none" THEN "none"
                   ELSE "error",
        grid |-> [p \in DOMAIN array |-> cells[p].v],
        vis_mask |-> [p \in DOMAIN array |-> array[p][1] # OBJECT_TO_IDX("unseen")]]

\* ------------------------------------------------------------------------
\* Observations of the multi-agent engine: get_view_exts, Grid.slice,
\* Grid.rotate_left, Grid.process_vis, gen_obs_grid, get_view_coords,
\* Grid.ma_encode, gen_obs.  A view is a square array of agent_view_size
\* cells a side, the observer in the middle of its last row.
\* ------------------------------------------------------------------------
agent_view_size == 7

ViewCells == (0 .. agent_view_size - 1) \X (0 .. agent_view_size - 1)

\* get_view_exts (lines 1910-1938): the top left corner of the view
\* Extents of a window that has the agent in its middle, whatever the
\* direction.
ViewExtsCentred(w, agent_id) ==
    <<w.agent_poses[agent_id][1] - agent_view_size \div 2,
      w.agent_poses[agent_id][2] - agent_view_size \div 2>>

get_view_exts(w, agent_id) ==
    LET p == w.agent_poses[agent_id]
        d == w.agent_dirs[agent_id]
        hs == agent_view_size \div 2
    IN CASE d = 0 -> <<p[1], p[2] - hs>>
         [] d = 1 -> <<p[1] - hs, p[2]>>
         [] d = 2 -> <<p[1] - agent_view_size + 1, p[2] - hs>>
         [] d = 3 -> <<p[1] - hs, p[2] - agent_view_size + 1>>

\* the cells of a Grid of the given width and height
RectCells(width, height) == (0 .. width - 1) \X (0 .. height - 1)

\* Grid.slice (lines 461-480), on the positions of the cells: cell <<i, j>>
\* of the slice is the cell <<topX + i, topY + j>> of the grid
Slice(top, width, height) ==
    [q \in RectCells(width, height) |-> <<top[1] + q[1], top[2] + q[2]>>]

\* Grid.rotate_left (lines 447-459) of a Grid of the given width and height:
\* the new Grid is height wide and width high, and
\* grid.set(j, grid.height - 1 - i, self.get(i, j))
rotate_left(g, width, height) ==
    [q \in RectCells(height, width) |-> g[<<width - 1 - q[2], q[1]>>]]

\* n calls of rotate_left in a row
RECURSIVE Rotated(_, _, _, _)
Rotated(g, n, width, height) ==
    IF n = 0 THEN g ELSE Rotated(rotate_left(g, width, height), n - 1, height, width)

\* the entity of the view at a position of the grid; Grid.slice puts a
\* Wall() where the position is outside the grid
ViewObj(w, p) ==
    IF ~InBounds(p) THEN Obj("wall", "grey", FALSE, FALSE)
    ELSE IF w.grid[p] = None THEN NoObj
    ELSE ObjIn(w, w.grid[p])

\* WorldObj.see_behind (108-110), Wall (220-221), Door (236-237)
see_behind(v) ==
    CASE v.type = "wall" -> FALSE
      [] v.type = "door" -> v.is_open
      [] OTHER -> TRUE

\* A sweep that spreads from every marked cell, opaque ones too.
SpreadThroughOpaque(g, mask, i, j, di) ==
    IF <<i, j>> \notin mask
    THEN mask
    ELSE {q \in DOMAIN g :
            \/ q \in mask
            \/ q = <<i + di, j>>
            \/ j > 0 /\ q \in {<<i + di, j - 1>>, <<i, j - 1>>}}

\* one cell of a sweep of Grid.process_vis (lines 776-786 and 789-799);
\* the mask is the set of the cells that are True
Spread(g, mask, i, j, di) ==
    IF <<i, j>> \notin mask \/ (g[<<i, j>>] # NoObj /\ ~see_behind(g[<<i, j>>]))
    THEN mask
    ELSE {q \in DOMAIN g :
            \/ q \in mask
            \/ q = <<i + di, j>>
            \/ j > 0 /\ q \in {<<i + di, j - 1>>, <<i, j - 1>>}}

\* The mask holds the observer's cell from the start and is never empty:
\* the test of m makes its evaluation precede the next cell of the sweep.
RECURSIVE SweepRight(_, _, _, _, _)
SweepRight(g, mask, i, j, width) ==
    IF i >= width - 1 THEN mask
    ELSE LET m == Spread(g, mask, i, j, 1)
         IN IF m = {} THEN m ELSE SweepRight(g, m, i + 1, j, width)

RECURSIVE SweepLeft(_, _, _, _)
SweepLeft(g, mask, i, j) ==
    IF i < 1 THEN mask
    ELSE LET m == Spread(g, mask, i, j, -1)
         IN IF m = {} THEN m ELSE SweepLeft(g, m, i - 1, j)

RECURSIVE SweepRows(_, _, _, _)
SweepRows(g, mask, j, width) ==
    IF j < 0 THEN mask
    ELSE LET m == SweepLeft(g, SweepRight(g, mask, 0, j, width), width - 1, j)
         IN IF m = {} THEN m ELSE SweepRows(g, m, j - 1, width)

\* Grid.process_vis (lines 769-806): the mask, for a Grid of the given
\* width and height
process_vis(g, width, height, agent_pos) == SweepRows(g, {agent_pos}, height - 1, width)

\* the end of Grid.process_vis (lines 801-804): the cells outside the mask
\* are set to None
ClearUnseen(g, mask) == [q \in DOMAIN g |-> IF q \in mask THEN g[q] ELSE NoObj]

\* the start of gen_obs_grid (lines 2198-2203): the slice at get_view_exts,
\* rotated left agent_dir + 1 times; the position of the grid each cell of
\* the window shows
SlicedRotated(w, agent_id) ==
    Rotated(Slice(get_view_exts(w, agent_id), agent_view_size, agent_view_size),
            w.agent_dirs[agent_id] + 1, agent_view_size, agent_view_size)

\* gen_obs_grid (lines 2191-2221) with see_through_walls = False: the cells
\* outside the mask are emptied by process_vis, and the observer's own cell
\* holds what it carries
gen_obs_grid(w, agent_id) ==
    LET where == SlicedRotated(w, agent_id)
        sliced == [q \in ViewCells |-> ViewObj(w, where[q])]
        agent_pos == <<agent_view_size \div 2, agent_view_size - 1>>
        carried == w.carrying_objects[agent_id]
        vis_mask == CHOOSE m \in {process_vis(sliced, agent_view_size, agent_view_size,
                                            agent_pos)} : TRUE
    IN [vis_mask |-> vis_mask,
        grid |-> [q \in ViewCells |->
                    IF q = agent_pos
                    THEN IF carried # None THEN ObjIn(w, carried) ELSE NoObj
                    ELSE IF q \in vis_mask THEN sliced[q] ELSE NoObj]]

\* right_vec (lines 1868-1874) and get_view_coords (lines 1883-1908)
get_view_coords(w, agent_id, p) ==
    LET a == w.agent_poses[agent_id]
        dv == DirVec(w, agent_id)
        rx == -dv[2]
        ry == dv[1]
        sz == agent_view_size
        hs == agent_view_size \div 2
        tx == a[1] + (dv[1] * (sz - 1)) - (rx * hs)
        ty == a[2] + (dv[2] * (sz - 1)) - (ry * hs)
        lx == p[1] - tx
        ly == p[2] - ty
    IN <<rx * lx + ry * ly, -(dv[1] * lx + dv[2] * ly)>>

\* the agents ma_encode looks for, in the order of the list gen_obs builds
\* (lines 2233)
OtherAgents(w, agent_id) == AgentsOf(w) \ {agent_id}

\* the list gen_obs hands to ma_encode (line 2233): for every other agent its
\* position in the observer's view, its index and its direction
relative_agent_poses(w, agent_id) ==
    [b \in OtherAgents(w, agent_id) |->
        <<get_view_coords(w, agent_id, w.agent_poses[b]), b, w.agent_dirs[b]>>]

\* Grid.ma_encode (lines 711-746): the marker of the first listed agent in
\* an empty cell, the entity's own encoding in any other cell
ma_encode(g, poses) ==
    [q \in DOMAIN g.grid |->
        IF q \notin g.vis_mask THEN <<0, 0, 0>>
        ELSE IF g.grid[q] = NoObj
        THEN LET here == {b \in DOMAIN poses : poses[b][1] = q}
             IN IF here # {}
                THEN LET found == CHOOSE b \in here : \A c \in here : b <= c
                     IN <<OBJECT_TO_IDX("agent"), poses[found][2] % NumColors,
                          poses[found][3]>>
                ELSE <<OBJECT_TO_IDX("empty"), 0, 0>>
        ELSE ObjEncode(g.grid[q])]

\* gen_obs (lines 2223-2252): the image of each agent
gen_obs(w) ==
    [agent_id \in AgentsOf(w) |->
        LET view == CHOOSE g \in {gen_obs_grid(w, agent_id)} : TRUE
        IN [image |-> ma_encode(view, relative_agent_poses(w, agent_id)),
            vis_mask |-> view.vis_mask,
            direction |-> w.agent_dirs[agent_id]]]

\* ------------------------------------------------------------------------
\* MAUnlockDoorGoal.step (envs/unlockdoorgoal.py, lines 67-79): the
\* multi-goal variant runs the engine's step() and then recomputes done and
\* the rewards from the agents' positions.  IDX_TO_COLOR[agent_id] and
\* goal_poses[colour] are dict lookups: a missing key is a KeyError.
\* ------------------------------------------------------------------------
\* A lookup that gives every agent the red goal.
RedGoal(agent_id) == goal_poses["red"]

GoalOf(agent_id) == goal_poses[IDX_TO_COLOR[agent_id + 1]]

HasGoal(agent_id) ==
    /\ agent_id + 1 \in DOMAIN IDX_TO_COLOR
    /\ IDX_TO_COLOR[agent_id + 1] \in DOMAIN goal_poses

GoalStep(acts) ==
    /\ variant = "multigoal"
    /\ raised = "none"
    /\ step_count < max_steps
    /\ \E r \in {StepResult(World, acts, IndexOrder(NumAgents(World)))} :
        /\ grid' = r.L.w.grid
        /\ is_open' = r.L.w.is_open
        /\ is_locked' = r.L.w.is_locked
        /\ agent_poses' = r.L.w.agent_poses
        /\ agent_dirs' = r.L.w.agent_dirs
        /\ carrying_objects' = r.L.w.carrying_objects
        /\ verdicts' = r.verdicts
        /\ reward' = IF r.L.rewarded THEN Reward(step_count + 1, max_steps) ELSE 0
        /\ IF r.raised # "none"
           THEN raised' = r.raised /\ UNCHANGED <<done, rewards>>
           ELSE IF \E a \in AgentsOf(r.L.w) : ~HasGoal(a)
           THEN raised' = "KeyError" /\ UNCHANGED <<done, rewards>>
           ELSE /\ raised' = "none"
                /\ rewards' = [k \in 1 .. NumAgents(r.L.w) |->
                                  IF r.L.w.agent_poses[k - 1] = GoalOf(k - 1)
                                  THEN 1 ELSE 0]
                /\ done' = \A a \in AgentsOf(r.L.w) :
                                  r.L.w.agent_poses[a] = GoalOf(a)
    /\ step_count' = step_count + 1
    /\ actions' = acts
    /\ snapshot' = World
    /\ UNCHANGED <<max_steps, inputs, variant, goal_poses, twin, obsVars>>

\* Goals: two agents in a room with the goals of their colours
\*      W  .  .  a  .  Gr W        Gr red goal (agent 0), Gg green goal
\*      W  .  .  b  .  Gg W        (agent 1); a, b are the agents, either way
GoalGrid == PutObj(PutObj(WallRect, GoalRed, <<5, 1>>), GoalGreen, <<5, 2>>)

InitGoals ==
    /\ grid = GoalGrid
    /\ is_open = [d \in Doors |-> FALSE]
    /\ is_locked = [d \in Doors |-> d = DoorGreen]
    /\ \E y \in {1, 2} :
          agent_poses = [a \in 0 .. 1 |-> IF a = 0 THEN <<3, y>> ELSE <<3, 3 - y>>]
    /\ agent_dirs = [a \in 0 .. 1 |-> Right]
    /\ max_steps = MaxStepsGoals
    /\ inputs = [a \in 0 .. 1 |-> {ActRight, ActForward, ActDone}]
    /\ InitCounters
    /\ variant = "multigoal"
    /\ twin = "none"
    /\ NoObservations
    /\ goal_poses = [c \in {"red", "green"} |->
                        IF c = "red" THEN <<5, 1>> ELSE <<5, 2>>]

\* ------------------------------------------------------------------------
\* MiniGridEnv.step (lines 1289-1353): the single-agent engine.  The agent
\* is agent 0 of the world record (agent_pos, agent_dir, carrying).
\* ------------------------------------------------------------------------
CanPickup(o) == ObjType(o) \in {"key", "ball", "box"}

\* Door.toggle (lines 239-249) and Box.toggle (lines 370-373); every other
\* entity of the model keeps WorldObj.toggle, which does nothing
Toggle(w, o, pos) ==
    IF ObjType(o) = "box" THEN [w EXCEPT !.grid[pos] = Contains(o)]
    ELSE IF ObjType(o) # "door" THEN w
    ELSE IF w.is_locked[o]
         THEN IF /\ w.carrying_objects[0] # None
                 /\ ObjType(w.carrying_objects[0]) = "key"
                 /\ ObjColor(w.carrying_objects[0]) = ObjColor(o)
              THEN [w EXCEPT !.is_locked[o] = FALSE, !.is_open[o] = TRUE]
              ELSE w
         ELSE [w EXCEPT !.is_open[o] = ~w.is_open[o]]

SoloStepResult(pre, action) ==
    LET fwd_pos == FrontPos(pre, 0)
        fwd_cell == pre.grid[fwd_pos]
        d == pre.agent_dirs[0]
        same == [w |-> pre, done |-> FALSE, rewarded |-> FALSE]
    IN
    IF ~InBounds(fwd_pos) THEN [L |-> same, raised |-> "AssertionError"]
    ELSE IF action \notin Actions
    THEN \* else: assert False, "unknown action" (lines 1345-1346)
         [L |-> same, raised |-> "AssertionError"]
    ELSE [raised |-> "none", L |->
        IF action = ActLeft
        THEN [same EXCEPT !.w.agent_dirs[0] = IF d - 1 < 0 THEN d - 1 + 4 ELSE d - 1]
        ELSE IF action = ActRight
        THEN [same EXCEPT !.w.agent_dirs[0] = (d + 1) % 4]
        ELSE IF action = ActForward
        THEN [w |-> IF fwd_cell = None \/ CanOverlap(pre, fwd_cell)
                    THEN [pre EXCEPT !.agent_poses[0] = fwd_pos] ELSE pre,
              done |-> fwd_cell # None /\ ObjType(fwd_cell) \in {"goal", "lava"},
              rewarded |-> fwd_cell # None /\ ObjType(fwd_cell) = "goal"]
        ELSE IF action = ActPickup
        THEN IF fwd_cell # None /\ CanPickup(fwd_cell) /\ pre.carrying_objects[0] = None
             THEN [same EXCEPT !.w.carrying_objects[0] = fwd_cell,
                               !.w.grid[fwd_pos] = None]
             ELSE same
        ELSE IF action = ActDrop
        THEN IF fwd_cell = None /\ pre.carrying_objects[0] # None
             THEN [same EXCEPT !.w.grid[fwd_pos] = pre.carrying_objects[0],
                               !.w.carrying_objects[0] = None]
             ELSE same
        ELSE IF action = ActToggle
        THEN IF fwd_cell # None THEN [same EXCEPT !.w = Toggle(pre, fwd_cell, fwd_pos)] ELSE same
        ELSE same]

SoloStep(action) ==
    /\ variant = "single"
    /\ raised = "none"
    /\ step_count < max_steps
    /\ \E r \in {SoloStepResult(World, action)} :
        /\ grid' = r.L.w.grid
        /\ is_open' = r.L.w.is_open
        /\ is_locked' = r.L.w.is_locked
        /\ agent_poses' = r.L.w.agent_poses
        /\ agent_dirs' = r.L.w.agent_dirs
        /\ carrying_objects' = r.L.w.carrying_objects
        /\ raised' = r.raised
        /\ done' = (r.L.done \/ step_count + 1 >= max_steps)
        /\ reward' = IF r.L.rewarded THEN Reward(step_count + 1, max_steps) ELSE 0
    /\ step_count' = step_count + 1
    /\ actions' = [a \in {0} |-> action]
    /\ snapshot' = World
    /\ UNCHANGED <<max_steps, inputs, variant, goal_poses, rewards, verdicts, twin, obsVars>>

\* Solo: one agent next to a locked green door, a ball and a key of the
\* door's colour or of another colour, or next to the goal and the lava
\*      W  .  .  K  b  G  W        K green or red key, G goal, L lava
\*      W  .  B  a  Dg L  W        B green ball, Dg locked green door
\* the agent starts at a facing up or left, or at b facing right
SoloGrid(key) ==
    PutObj(PutObj(PutObj(PutObj(PutObj(WallRect, key, <<3, 1>>), BallGreen, <<2, 2>>),
                         DoorGreen, <<4, 2>>), TheGoal, <<5, 1>>), TheLava, <<5, 2>>)

SoloStarts == {<<<<3, 2>>, Up>>, <<<<3, 2>>, Left>>, <<<<4, 1>>, Right>>}

InitSolo ==
    /\ \E key \in {KeyGreen, KeyRed} : grid = SoloGrid(key)
    /\ is_open = [d \in Doors |-> FALSE]
    /\ is_locked = [d \in Doors |-> d = DoorGreen]
    /\ \E st \in SoloStarts :
          /\ agent_poses = [a \in {0} |-> st[1]]
          /\ agent_dirs = [a \in {0} |-> st[2]]
    /\ max_steps = MaxStepsSolo
    /\ inputs = [a \in {0} |-> Actions \cup {ActUnknown}]
    /\ InitCounters
    /\ variant = "single"
    /\ goal_poses = <<>>
    /\ twin = "none"
    /\ NoObservations

\* Keys: two agents of the multi-agent engine beside the locked green door,
\* each facing an entity of its own colour that does not fit the door
\*      W  .  .  Kr b  Bg W        Kr red key, Bg green ball
\*      W  .  .  a  Dg .  W        Dg locked green door
\* agent 0 (red) starts at a facing up, agent 1 (green) at b facing right
KeysGrid ==
    PutObj(PutObj(PutObj(WallRect, KeyRed, <<3, 1>>), BallGreen, <<5, 1>>),
           DoorGreen, <<4, 2>>)

InitKeys ==
    /\ grid = KeysGrid
    /\ is_open = [d \in Doors |-> FALSE]
    /\ is_locked = [d \in Doors |-> d = DoorGreen]
    /\ agent_poses = [a \in 0 .. 1 |-> IF a = 0 THEN <<3, 2>> ELSE <<4, 1>>]
    /\ agent_dirs = [a \in 0 .. 1 |-> IF a = 0 THEN Up ELSE Right]
    /\ max_steps = MaxStepsKeys
    /\ inputs = [a \in 0 .. 1 |-> {ActRight, ActPickup, ActToggle}]
    /\ InitCommon

\* Hazards: two agents of the multi-agent engine two cells away from the
\* goal and from the lava
\*      W  .  .  a  .  G  W        G goal
\*      W  .  .  b  F  L  W        L lava, F blue floor tile
\* agent 0 starts at a and agent 1 at b, both facing right; the controller
\* of agent 1 may also send an action index outside the enumeration
HazardsGrid ==
    PutObj(PutObj(PutObj(WallRect, TheGoal, <<5, 1>>), TheLava, <<5, 2>>),
           FloorBlue, <<4, 2>>)

InitHazards ==
    /\ grid = HazardsGrid
    /\ is_open = [d \in Doors |-> FALSE]
    /\ is_locked = [d \in Doors |-> d = DoorGreen]
    /\ agent_poses = [a \in 0 .. 1 |-> IF a = 0 THEN <<3, 1>> ELSE <<3, 2>>]
    /\ agent_dirs = [a \in 0 .. 1 |-> Right]
    /\ max_steps = MaxStepsHazards
    /\ inputs = [a \in 0 .. 1 |-> IF a = 0 THEN {ActForward, ActRight, ActDone}
                                  ELSE {ActForward, ActRight, ActDone, ActUnknown}]
    /\ InitCommon

\* Boxes: a red Box holding the green ball and an empty green Box
\*      W  .  .  a  Br .  W        Br red box
\*      W  .  .  b  Bg .  W        Bg green box
\* In the multi-agent engine agent 0 starts at a and agent 1 at b, both
\* facing right; in the single-agent engine the agent starts at a or at b,
\* facing right.
BoxesGrid == PutObj(PutObj(WallRect, BoxRed, <<4, 1>>), BoxGreen, <<4, 2>>)

InitBoxes ==
    /\ grid = BoxesGrid
    /\ is_open = [d \in Doors |-> FALSE]
    /\ is_locked = [d \in Doors |-> d = DoorGreen]
    /\ agent_poses = [a \in 0 .. 1 |-> IF a = 0 THEN <<3, 1>> ELSE <<3, 2>>]
    /\ agent_dirs = [a \in 0 .. 1 |-> Right]
    /\ max_steps = MaxStepsBoxes
    /\ inputs = [a \in 0 .. 1 |-> {ActPickup, ActToggle, ActDone}]
    /\ InitCommon

InitBoxesSolo ==
    /\ grid = BoxesGrid
    /\ is_open = [d \in Doors |-> FALSE]
    /\ is_locked = [d \in Doors |-> d = DoorGreen]
    /\ \E y \in {1, 2} : agent_poses = [a \in {0} |-> <<3, y>>]
    /\ agent_dirs = [a \in {0} |-> Right]
    /\ max_steps = MaxStepsBoxes
    /\ inputs = [a \in {0} |-> {ActForward, ActPickup, ActDrop, ActToggle}]
    /\ InitCounters
    /\ variant = "single"
    /\ goal_poses = <<>>
    /\ twin = "none"
    /\ NoObservations

\* ------------------------------------------------------------------------
\* MultiAgentMiniGridEnv.hash (lines 1614-1626): the items whose str() is
\* fed to the digest, one after the other.  The grid arrays of the model
\* have fewer elements than the size (1000) from which str() of an array
\* leaves elements out.
\* ------------------------------------------------------------------------
\* Grid.ma_encode (lines 711-746) as hash() calls it: no mask, every agent
\* in the list
HashEncode(w) ==
    [p \in Cells |->
        IF w.grid[p] = None
        THEN LET here == {b \in AgentsOf(w) : w.agent_poses[b] = p}
             IN IF here # {}
                THEN LET found == CHOOSE b \in here : \A c \in here : b <= c
                     IN <<OBJECT_TO_IDX("agent"), found % NumColors,
                          w.agent_dirs[found]>>
                ELSE <<OBJECT_TO_IDX("empty"), 0, 0>>
        ELSE ObjEncode(ObjIn(w, w.grid[p]))]

to_encode(w) == <<HashEncode(w), w.agent_poses, w.agent_dirs>>

\* ------------------------------------------------------------------------
\* Two instances of the multi-agent engine, reset to the same state and
\* stepped together, each with its own action vector.  Every instance runs
\* the loop of step() in the order of the agents' indices.
\* ------------------------------------------------------------------------
\* An order of the loop that is reversed in the second instance.
RunOrderReversed(run, n) ==
    IF run = 1 THEN [k \in 1 .. n |-> k - 1] ELSE [k \in 1 .. n |-> n - k]

RunOrder(run, n) == IndexOrder(n)

TwoStep(acts, others) ==
    /\ variant = "two runs"
    /\ raised = "none"
    /\ twin.raised = "none"
    /\ step_count < max_steps
    /\ \E r \in {StepResult(World, acts, RunOrder(1, NumAgents(World)))} :
        /\ grid' = r.L.w.grid
        /\ is_open' = r.L.w.is_open
        /\ is_locked' = r.L.w.is_locked
        /\ agent_poses' = r.L.w.agent_poses
        /\ agent_dirs' = r.L.w.agent_dirs
        /\ carrying_objects' = r.L.w.carrying_objects
        /\ raised' = r.raised
        /\ verdicts' = r.verdicts
        /\ done' = (r.L.done \/ step_count + 1 >= max_steps)
        /\ reward' = IF r.L.rewarded THEN Reward(step_count + 1, max_steps) ELSE 0
    /\ \E t \in {StepResult(twin.w, others, RunOrder(2, NumAgents(twin.w)))} :
        twin' = [w |-> t.L.w,
                 raised |-> t.raised,
                 done |-> (t.L.done \/ step_count + 1 >= max_steps),
                 reward |-> IF t.L.rewarded THEN Reward(step_count + 1, max_steps)
                            ELSE 0,
                 same |-> twin.same /\ others = acts]
    /\ step_count' = step_count + 1
    /\ actions' = acts
    /\ snapshot' = World
    /\ UNCHANGED <<max_steps, inputs, variant, goal_poses, rewards, obsVars>>

InitTwo ==
    /\ is_open = [d \in Doors |-> FALSE]
    /\ is_locked = [d \in Doors |-> d = DoorGreen]
    /\ \/ /\ grid = TrioGrid
          /\ agent_poses = [a \in 0 .. 2 |-> <<<<1, 1>>, <<2, 1>>, <<4, 1>>>>[a + 1]]
          /\ agent_dirs = [a \in 0 .. 2 |-> <<Right, Right, Left>>[a + 1]]
          /\ inputs = [a \in 0 .. 2 |-> <<{ActForward}, {ActForward, ActDone},
                                          {ActForward, ActToggle}>>[a + 1]]
       \/ /\ grid = SevenGrid
          /\ agent_poses = [a \in 0 .. 6 |-> SevenPoses[a + 1]]
          /\ agent_dirs = [a \in 0 .. 6 |-> SevenDirs[a + 1]]
          /\ inputs = [a \in 0 .. 6 |-> IF a \in {0, 6}
                                        THEN {ActPickup, ActDrop, ActDone}
                                        ELSE {ActDone}]
    /\ max_steps = MaxStepsTwo
    /\ InitCounters
    /\ variant = "two runs"
    /\ goal_poses = <<>>
    /\ twin = [w |-> World, raised |-> "none", done |-> FALSE, reward |-> 0,
               same |-> TRUE]
    /\ NoObservations

TwoNext ==
    \E v, o \in ActionVectors(inputs, NumAgents(World)) :
        TwoStep([a \in DOMAIN agent_poses |-> v[a + 1]],
                [a \in DOMAIN agent_poses |-> o[a + 1]])

SpecTwo == InitTwo /\ [][TwoNext]_vars

\* ------------------------------------------------------------------------
\* CommunicativeMultiAgentMiniGridEnv: step() takes a pair <<physical
\* action, communicate flag>> from every agent, runs the turn of the
\* multi-agent engine on the physical actions (lines 2442-2559 repeat lines
\* 2071-2184) and returns the shared observations.  An observation is an
\* array over the whole grid.
\* ------------------------------------------------------------------------
Min(S) == CHOOSE x \in S : \A y \in S : x <= y

\* the distance below which a signal is received (line 2673)
CommRange == 3

\* The Grid objects an observation is made of, by name; "self.grid" is the
\* environment's.  A Grid that is the same object as its source.
SameGrid(name) == name

\* Grid.slice builds a new Grid (line 466), and so does every rotate_left
\* after it (line 452)
SliceGrid(name) == <<"slice of", name>>

\* Grid.copy is a deepcopy (lines 415-417)
CopyGrid(name) == <<"copy of", name>>

\* np.rot90 of a mask of the given shape, the mask being the set of its
\* True cells: the result has the shape <<height, width>> and
\* out[i, j] = m[j, height - 1 - i]
rot90(m, width, height) ==
    {q \in RectCells(height, width) : <<q[2], height - 1 - q[1]>> \in m}

RECURSIVE Rot90Times(_, _, _, _)
Rot90Times(m, k, width, height) ==
    IF k = 0 THEN m ELSE Rot90Times(rot90(m, width, height), k - 1, height, width)

\* gen_obs_grid_comm (lines 2569-2635) with see_through_walls = False: the
\* view extents clipped to the grid, the slice rotated so that the observer
\* looks up, process_vis from the observer's cell in the last row, the
\* slice and the mask rotated back and written into a copy of the grid
gen_obs_grid_comm(w, agent_id) ==
    LET top == get_view_exts(w, agent_id)
        topX == Max({0, top[1]})
        topY == Max({0, top[2]})
        botX == Min({GridWidth, top[1] + agent_view_size})
        botY == Min({GridHeight, top[2] + agent_view_size})
        width == botX - topX
        height == botY - topY
        d == w.agent_dirs[agent_id]
        p == w.agent_poses[agent_id]
        carried == w.carrying_objects[agent_id]
        \* the rotated slice is height wide when the number of turns is odd
        rw == IF d % 2 = 0 THEN height ELSE width
        rh == IF d % 2 = 0 THEN width ELSE height
        where == Rotated(Slice(<<topX, topY>>, width, height), d + 1, width, height)
        sliced == [q \in RectCells(rw, rh) |-> ViewObj(w, where[q])]
        agent_rel_x == CASE d = 0 -> p[2] - topY
                         [] d = 1 -> botX - 1 - p[1]
                         [] d = 2 -> botY - 1 - p[2]
                         [] d = 3 -> p[1] - topX
        InSlice(c) == c[1] >= topX /\ c[1] < botX /\ c[2] >= topY /\ c[2] < botY
    IN \* every value is computed once: the mask of process_vis, the mask
       \* turned back by np.rot90 (line 2616) and the slice turned back by
       \* rotate_left (lines 2613-2614)
       CHOOSE final \in UNION {
        {[vis_mask |-> {c \in Cells :
                          InSlice(c) /\ <<c[1] - topX, c[2] - topY>> \in turned},
          slice |-> {c \in Cells : InSlice(c)},
          grid |-> [c \in Cells |->
                      IF c = p
                      THEN IF carried # None THEN ObjIn(w, carried) ELSE NoObj
                      ELSE IF InSlice(c) THEN back[<<c[1] - topX, c[2] - topY>>]
                      ELSE ViewObj(w, c)]] :
            turned \in {Rot90Times(vis_mask, d + 1, rw, rh)},
            back \in {Rotated(ClearUnseen(sliced, vis_mask), 3 - d, rw, rh)}} :
        vis_mask \in {process_vis(sliced, rw, rh, <<agent_rel_x, rh - 1>>)}} : TRUE

\* the list gen_obs_comm hands to ma_encode (line 2650): for every other
\* agent its position in the grid, its index and its direction
agent_poses_list(w, agent_id) ==
    [b \in OtherAgents(w, agent_id) |-> <<w.agent_poses[b], b, w.agent_dirs[b]>>]

\* the private observation of every agent (lines 2645-2662)
PrivateObs(w) ==
    [agent_id \in AgentsOf(w) |->
        LET view == CHOOSE g \in {gen_obs_grid_comm(w, agent_id)} : TRUE
        IN [image |-> ma_encode(view, agent_poses_list(w, agent_id)),
            vis_mask |-> view.vis_mask,
            direction |-> w.agent_dirs[agent_id]]]

SqDist(p, q) == (p[1] - q[1]) * (p[1] - q[1]) + (p[2] - q[2]) * (p[2] - q[2])

\* A test of the distance on the positions the agents have now.
InRangeNow(w, orig, a, b) ==
    SqDist(w.agent_poses[a], w.agent_poses[b]) < CommRange * CommRange

\* lines 2669-2673: sqrt(dx^2 + dy^2) < 3 on the stored positions
InRange(w, orig, a, b) == SqDist(orig[a], orig[b]) < CommRange * CommRange

\* A copy that leaves out the entries of empty cells as well.
CopyNonEmpty(image, mask, stored) ==
    [c \in DOMAIN image |->
        IF c \notin mask /\ stored[c][1] \notin {0, OBJECT_TO_IDX("empty"),
                                                 OBJECT_TO_IDX("agent")}
        THEN stored[c] ELSE image[c]]

\* lines 2675-2681: what one sender's stored image overwrites of a shared
\* image, given the receiver's mask
CopyFrom(image, mask, stored) ==
    [c \in DOMAIN image |->
        IF c \notin mask /\ stored[c][1] \notin {0, OBJECT_TO_IDX("agent")}
        THEN stored[c] ELSE image[c]]

\* lines 2666-2681: the senders in the order of their indices
RECURSIVE Overlay(_, _, _, _, _, _, _)
Overlay(w, image, mask, agent_id, other_agent_id, comms, stored) ==
    IF other_agent_id >= NumAgents(w) THEN image
    ELSE LET next ==
                IF /\ agent_id # other_agent_id
                   /\ comms[other_agent_id] # 0
                   /\ InRange(w, stored.poses, agent_id, other_agent_id)
                THEN CopyFrom(image, mask, stored.obs[other_agent_id].image)
                ELSE image
         IN Overlay(w, next, mask, agent_id, other_agent_id + 1, comms, stored)

\* The arrays of the two lists gen_obs_comm returns, by name.  Both lists
\* take a deepcopy of the observation (lines 2662-2663), so the array the
\* overlay writes to (lines 2679-2681) is the receiver's entry of
\* shared_obs and no other.
CombinedImage(agent_id) == <<"combined_obs", agent_id>>

SharedImage(agent_id) == <<"shared_obs", agent_id>>

\* gen_obs_comm (lines 2637-2683); comms is empty for comm_actions = None
gen_obs_comm(w, comms, stored) ==
    LET \* the comparison makes the list of observations be built once
        private == CHOOSE p \in {PrivateObs(w)} : p # <<>>
        shared == [agent_id \in AgentsOf(w) |->
                      IF DOMAIN comms = {} THEN private[agent_id]
                      ELSE [private[agent_id] EXCEPT
                              !.image = Overlay(w, private[agent_id].image,
                                                private[agent_id].vis_mask,
                                                agent_id, 0, comms, stored)]]
    IN [combined_obs |-> [agent_id \in AgentsOf(w) |->
                            IF SharedImage(agent_id) = CombinedImage(agent_id)
                            THEN shared[agent_id] ELSE private[agent_id]],
        shared_obs |-> shared]

\* what the observation of one agent leaves of the environment's grid: the
\* cells process_vis empties and the cell that takes the carried entity
\* belong to the Grid written to
GridAfterObs(w, g, agent_id) ==
    LET seen == CHOOSE v \in {gen_obs_grid_comm([w EXCEPT !.grid = g], agent_id)} : TRUE
        emptied == IF SliceGrid("self.grid") = "self.grid"
                   THEN [c \in Cells |-> IF c \in seen.slice \ seen.vis_mask
                                         THEN None ELSE g[c]]
                   ELSE g
    IN IF CopyGrid("self.grid") = "self.grid"
       THEN [emptied EXCEPT ![w.agent_poses[agent_id]] = w.carrying_objects[agent_id]]
       ELSE emptied

RECURSIVE GridAfterAllObs(_, _, _)
GridAfterAllObs(w, g, agent_id) ==
    IF agent_id >= NumAgents(w) THEN g
    ELSE GridAfterAllObs(w, GridAfterObs(w, g, agent_id), agent_id + 1)

\* Storing what step() returns instead.
StoredShared(o) == o.shared_obs

\* step() stores the private observations: self.past_obs = deepcopy(obs)
\* (lines 2563-2565)
StoredObs(o) == o.combined_obs

CommStep(acts, comms) ==
    /\ variant = "comm"
    /\ raised = "none"
    /\ step_count < max_steps
    /\ \E r \in {StepResult(World, acts, IndexOrder(NumAgents(World)))} :
        /\ is_open' = r.L.w.is_open
        /\ is_locked' = r.L.w.is_locked
        /\ agent_poses' = r.L.w.agent_poses
        /\ agent_dirs' = r.L.w.agent_dirs
        /\ carrying_objects' = r.L.w.carrying_objects
        /\ raised' = r.raised
        /\ verdicts' = r.verdicts
        /\ done' = (r.L.done \/ step_count + 1 >= max_steps)
        /\ reward' = IF r.L.rewarded THEN Reward(step_count + 1, max_steps) ELSE 0
        /\ IF r.raised # "none"
           THEN /\ grid' = r.L.w.grid
                /\ UNCHANGED <<orig_agent_poses, past_obs, combined_obs, shared_obs>>
           ELSE \E o \in {gen_obs_comm(r.L.w, comms,
                                       [poses |-> orig_agent_poses, obs |-> past_obs])} :
                /\ grid' = GridAfterAllObs(r.L.w, r.L.w.grid, 0)
                /\ combined_obs' = o.combined_obs
                /\ shared_obs' = o.shared_obs
                /\ orig_agent_poses' = r.L.w.agent_poses
                /\ past_obs' = StoredObs(o)
    /\ step_count' = step_count + 1
    /\ actions' = acts
    /\ comm_actions' = comms
    /\ heard' = [poses |-> orig_agent_poses, obs |-> past_obs, returned |-> shared_obs]
    /\ snapshot' = World
    /\ window_mask' = {}
    /\ UNCHANGED <<max_steps, inputs, variant, goal_poses, rewards, twin, window>>

\* the Grid gen_obs_grid writes to: the slice and its rotations (lines
\* 2200-2203)
GridAfterRender(w, g, agent_id) ==
    LET seen == CHOOSE v \in {gen_obs_grid([w EXCEPT !.grid = g], agent_id)} : TRUE
        where == Rotated(Slice(get_view_exts(w, agent_id), agent_view_size,
                               agent_view_size),
                         w.agent_dirs[agent_id] + 1, agent_view_size, agent_view_size)
    IN IF SliceGrid("self.grid") = "self.grid"
       THEN [c \in Cells |->
                IF c = w.agent_poses[agent_id] THEN w.carrying_objects[agent_id]
                ELSE IF \E q \in ViewCells : where[q] = c /\ q \notin seen.vis_mask
                THEN None ELSE g[c]]
       ELSE g

RECURSIVE GridAfterAllRenders(_, _, _)
GridAfterAllRenders(w, g, agent_id) ==
    IF agent_id >= NumAgents(w) THEN g
    ELSE GridAfterAllRenders(w, GridAfterRender(w, g, agent_id), agent_id + 1)

\* render() (lines 2271-2329) calls gen_obs_grid for every agent and
\* highlights the cells of the masks; window_mask keeps the pairs of an
\* agent and a cell of its mask
Render ==
    /\ variant = "comm"
    /\ raised = "none"
    /\ window_mask = {}
    /\ window_mask' = UNION {{<<a, q>> : q \in gen_obs_grid(World, a).vis_mask} :
                                a \in DOMAIN agent_poses}
    /\ grid' = GridAfterAllRenders(World, grid, 0)
    /\ snapshot' = World
    /\ UNCHANGED <<is_open, is_locked, agent_poses, agent_dirs, carrying_objects,
                   step_count, max_steps, done, raised, inputs, actions, verdicts,
                   variant, goal_poses, reward, rewards, twin, window,
                   orig_agent_poses, past_obs, combined_obs, shared_obs, comm_actions,
                   heard>>

\* Comm: three agents in a room with a red key and a blue floor tile
\*      W  a  F  b  .  K  W        K red key, F blue floor tile
\*      W  .  .  .  c  .  W
\* agent 0 starts at a facing right, agent 1 at b facing left and agent 2 at
\* c facing right.  Agent 0 moves, turns left or stays and may signal, agent
\* 1 stays and may signal, agent 2 stays and never signals.
CommGrid == PutObj(PutObj(WallRect, KeyRed, <<5, 1>>), FloorBlue, <<2, 1>>)

\* the communicate flags each agent chooses from
CommFlags == <<{0, 1}, {0, 1}, {0}>>

\* reset() (lines 2408-2440): the first observations are generated without
\* communicate flags and stored
InitComm ==
    /\ grid = CommGrid
    /\ is_open = [d \in Doors |-> FALSE]
    /\ is_locked = [d \in Doors |-> d = DoorGreen]
    /\ agent_poses = [a \in 0 .. 2 |-> << <<1, 1>>, <<3, 1>>, <<4, 2>> >>[a + 1]]
    /\ agent_dirs = [a \in 0 .. 2 |-> <<Right, Left, Right>>[a + 1]]
    /\ max_steps = MaxStepsComm
    /\ inputs = [a \in 0 .. 2 |-> <<{ActLeft, ActForward, ActDone}, {ActDone},
                                    {ActDone}>>[a + 1]]
    /\ InitCounters
    /\ variant = "comm"
    /\ goal_poses = <<>>
    /\ twin = "none"
    /\ window = "none"
    /\ window_mask = {}
    /\ comm_actions = <<>>
    /\ heard = "none"
    /\ orig_agent_poses = agent_poses
    /\ \E o \in {gen_obs_comm(World, <<>>, [poses |-> <<>>, obs |-> <<>>])} :
          /\ combined_obs = o.combined_obs
          /\ shared_obs = o.combined_obs
          /\ past_obs = o.combined_obs

CommNext ==
    \/ \E v \in ActionVectors(inputs, NumAgents(World)) :
         \E f \in ActionVectors([a \in DOMAIN agent_poses |-> CommFlags[a + 1]],
                                NumAgents(World)) :
            CommStep([a \in DOMAIN agent_poses |-> v[a + 1]],
                     [a \in DOMAIN agent_poses |-> f[a + 1]])
    \/ Render

SpecComm == InitComm /\ [][CommNext]_vars

\* ------------------------------------------------------------------------
\* All environment classes together
\* ------------------------------------------------------------------------
InitAll ==
    Init \/ InitKeys \/ InitHazards \/ InitGoals \/ InitSolo \/ InitBoxes \/ InitBoxesSolo

GoalNext ==
    \E v \in ActionVectors(inputs, NumAgents(World)) :
        GoalStep([a \in DOMAIN agent_poses |-> v[a + 1]])

SoloNext == \E action \in inputs[0] : SoloStep(action)

NextAll == Next \/ GoalNext \/ SoloNext

SpecAll == InitAll /\ [][NextAll]_vars

\* ------------------------------------------------------------------------
\* Grid.process_vis on its own: the windows are views of agent_view_size
\* cells a side that are empty but for at most MaxObstacles entities (a
\* Wall, a closed Door or an open Door each) in the MaxDepth rows nearest
\* the observer, less than MaxDepth columns to its side; the observer stands
\* in the middle of the last row.
\* ------------------------------------------------------------------------
Anchor == <<agent_view_size \div 2, agent_view_size - 1>>

ObstacleCells ==
    {q \in ViewCells : /\ q # Anchor
                       /\ q[2] >= agent_view_size - MaxDepth
                       /\ q[1] - Anchor[1] < MaxDepth
                       /\ Anchor[1] - q[1] < MaxDepth}

ObstacleKinds ==
    {Obj("wall", "grey", FALSE, FALSE), Obj("door", "green", FALSE, FALSE),
     Obj("door", "green", TRUE, FALSE)}

engineVars == <<grid, is_open, is_locked, agent_poses, agent_dirs, carrying_objects,
                step_count, max_steps, done, raised, inputs, actions, snapshot,
                verdicts, variant, goal_poses, reward, rewards, twin>>

InitVis ==
    /\ \E S \in SUBSET ObstacleCells :
          /\ Cardinality(S) <= MaxObstacles
          /\ \E k \in [S -> ObstacleKinds] :
                window = [q \in ViewCells |-> IF q \in S THEN k[q] ELSE NoObj]
    /\ window_mask = {}
    /\ snapshot = window
    /\ grid = WallRect
    /\ is_open = [d \in Doors |-> FALSE]
    /\ is_locked = [d \in Doors |-> FALSE]
    /\ agent_poses = <<>>
    /\ agent_dirs = <<>>
    /\ carrying_objects = <<>>
    /\ inputs = <<>>
    /\ actions = <<>>
    /\ verdicts = <<>>
    /\ step_count = 0
    /\ max_steps = 0
    /\ done = FALSE
    /\ raised = "none"
    /\ reward = 0
    /\ rewards = <<>>
    /\ variant = "window"
    /\ goal_poses = <<>>
    /\ twin = "none"
    /\ orig_agent_poses = "none"
    /\ past_obs = "none"
    /\ combined_obs = "none"
    /\ shared_obs = "none"
    /\ comm_actions = "none"
    /\ heard = "none"

\* one call of window.process_vis(agent_pos = Anchor); snapshot keeps the
\* window as the call found it
ProcessVis ==
    /\ variant = "window"
    /\ window_mask = {}
    /\ \E m \in {process_vis(window, agent_view_size, agent_view_size, Anchor)} :
          /\ window_mask' = m
          /\ window' = ClearUnseen(window, m)
    /\ UNCHANGED <<engineVars, orig_agent_poses, past_obs, combined_obs, shared_obs,
                   comm_actions, heard>>

SpecVis == InitVis /\ [][ProcessVis]_vars

\* ------------------------------------------------------------------------
\* envs/keycorridor.py: KeyCorridor.step (lines 53-61) and MAKeyCorridor.step
\* (lines 154-163) run the engine's step() and then look for the designated
\* object self.obj among the carried entities.  The episodes are those with
\* obj_type = "ball"; the rooms stand for the ones RoomGrid / MARoomGrid
\* generate.
\* ------------------------------------------------------------------------
\* self.obj (lines 50, 148)
obj == BallGreen

\* A test that looks at the actions only.
PickupSent(acts, w) == \E a \in DOMAIN acts : acts[a] = ActPickup

\* lines 56-57 and 158-159: a pickup is among the actions and self.obj is
\* carried
Retrieved(acts, w) ==
    /\ \E a \in DOMAIN acts : acts[a] = ActPickup
    /\ \E a \in AgentsOf(w) : w.carrying_objects[a] = obj

RetrieveStep(acts) ==
    /\ variant = "retrieve"
    /\ raised = "none"
    /\ step_count < max_steps
    /\ \E r \in {StepResult(World, acts, IndexOrder(NumAgents(World)))} :
        /\ grid' = r.L.w.grid
        /\ is_open' = r.L.w.is_open
        /\ is_locked' = r.L.w.is_locked
        /\ agent_poses' = r.L.w.agent_poses
        /\ agent_dirs' = r.L.w.agent_dirs
        /\ carrying_objects' = r.L.w.carrying_objects
        /\ raised' = r.raised
        /\ verdicts' = r.verdicts
        /\ IF r.raised = "none" /\ Retrieved(acts, r.L.w)
           THEN /\ reward' = Reward(step_count + 1, max_steps)
                /\ done' = TRUE
           ELSE /\ reward' = IF r.L.rewarded THEN Reward(step_count + 1, max_steps) ELSE 0
                /\ done' = (r.L.done \/ step_count + 1 >= max_steps)
    /\ step_count' = step_count + 1
    /\ actions' = acts
    /\ snapshot' = World
    /\ UNCHANGED <<max_steps, inputs, variant, goal_poses, rewards, twin, obsVars>>

RetrieveSoloStep(action) ==
    /\ variant = "retrieve solo"
    /\ raised = "none"
    /\ step_count < max_steps
    /\ \E r \in {SoloStepResult(World, action)} :
        /\ grid' = r.L.w.grid
        /\ is_open' = r.L.w.is_open
        /\ is_locked' = r.L.w.is_locked
        /\ agent_poses' = r.L.w.agent_poses
        /\ agent_dirs' = r.L.w.agent_dirs
        /\ carrying_objects' = r.L.w.carrying_objects
        /\ raised' = r.raised
        /\ IF r.raised = "none" /\ Retrieved([a \in {0} |-> action], r.L.w)
           THEN /\ reward' = Reward(step_count + 1, max_steps)
                /\ done' = TRUE
           ELSE /\ reward' = IF r.L.rewarded THEN Reward(step_count + 1, max_steps) ELSE 0
                /\ done' = (r.L.done \/ step_count + 1 >= max_steps)
    /\ step_count' = step_count + 1
    /\ actions' = [a \in {0} |-> action]
    /\ snapshot' = World
    /\ UNCHANGED <<max_steps, inputs, variant, goal_poses, rewards, verdicts, twin, obsVars>>

\* Retrieve: the green ball is the designated object
\*      W  .  .  b  B  .  W        B green ball (self.obj), Kr red key
\*      W  .  .  a  Kr .  W
\* In the multi-agent engine agent 0 (red) starts at a and agent 1 (green)
\* at b, both facing right; in the single-agent engine the agent starts at
\* b facing right.
RetrieveGrid == PutObj(PutObj(WallRect, BallGreen, <<4, 1>>), KeyRed, <<4, 2>>)

InitRetrieve ==
    /\ grid = RetrieveGrid
    /\ is_open = [d \in Doors |-> FALSE]
    /\ is_locked = [d \in Doors |-> d = DoorGreen]
    /\ agent_poses = [a \in 0 .. 1 |-> IF a = 0 THEN <<3, 2>> ELSE <<3, 1>>]
    /\ agent_dirs = [a \in 0 .. 1 |-> Right]
    /\ max_steps = MaxStepsRetrieve
    /\ inputs = [a \in 0 .. 1 |-> IF a = 0 THEN {ActPickup, ActDrop, ActDone}
                                  ELSE {ActLeft, ActPickup, ActDrop, ActDone}]
    /\ InitCounters
    /\ variant = "retrieve"
    /\ goal_poses = <<>>
    /\ twin = "none"
    /\ NoObservations

InitRetrieveSolo ==
    /\ grid = RetrieveGrid
    /\ is_open = [d \in Doors |-> FALSE]
    /\ is_locked = [d \in Doors |-> d = DoorGreen]
    /\ agent_poses = [a \in {0} |-> <<3, 1>>]
    /\ agent_dirs = [a \in {0} |-> Right]
    /\ max_steps = MaxStepsRetrieve
    /\ inputs = [a \in {0} |-> {ActRight, ActPickup, ActDrop, ActDone}]
    /\ InitCounters
    /\ variant = "retrieve solo"
    /\ goal_poses = <<>>
    /\ twin = "none"
    /\ NoObservations

RetrieveNext ==
    \/ \E v \in ActionVectors(inputs, NumAgents(World)) :
          RetrieveStep([a \in DOMAIN agent_poses |-> v[a + 1]])
    \/ \E action \in inputs[0] : RetrieveSoloStep(action)

SpecRetrieve == (InitRetrieve \/ InitRetrieveSolo) /\ [][RetrieveNext]_vars

\* ------------------------------------------------------------------------
\* Ring: four agents of the multi-agent engine on a block of two by two
\* cells, each facing the cell of the next one clockwise
\*      W  .  a0 a1 .  .  W        a0 faces right, a1 down,
\*      W  .  a3 a2 .  .  W        a2 left, a3 up
\* Agents 0 and 1 move, turn left or stay, agents 2 and 3 move or stay.
\* ------------------------------------------------------------------------
RingPoses == << <<2, 1>>, <<3, 1>>, <<3, 2>>, <<2, 2>> >>

RingDirs == << Right, Down, Left, Up >>

InitRing ==
    /\ grid = WallRect
    /\ is_open = [d \in Doors |-> FALSE]
    /\ is_locked = [d \in Doors |-> d = DoorGreen]
    /\ agent_poses = [a \in 0 .. 3 |-> RingPoses[a + 1]]
    /\ agent_dirs = [a \in 0 .. 3 |-> RingDirs[a + 1]]
    /\ max_steps = MaxStepsRing
    /\ inputs = [a \in 0 .. 3 |-> IF a \in {0, 1} THEN {ActLeft, ActForward, ActDone}
                                  ELSE {ActForward, ActDone}]
    /\ InitCommon

SpecRing == InitRing /\ [][Next]_vars

\* ------------------------------------------------------------------------
\* Locks: two agents of the multi-agent engine that both face the green key
\* and, one turn later, the locked green door
\*      W  .  .  Kg b  .  W        Kg green key
\*      W  .  .  a  Dg .  W        Dg locked green door
\* agent 0 (red) starts at a facing up, agent 1 (green) at b facing left
\* ------------------------------------------------------------------------
LocksGrid == PutObj(PutObj(WallRect, KeyGreen, <<3, 1>>), DoorGreen, <<4, 2>>)

InitLocks ==
    /\ grid = LocksGrid
    /\ is_open = [d \in Doors |-> FALSE]
    /\ is_locked = [d \in Doors |-> d = DoorGreen]
    /\ agent_poses = [a \in 0 .. 1 |-> IF a = 0 THEN <<3, 2>> ELSE <<4, 1>>]
    /\ agent_dirs = [a \in 0 .. 1 |-> IF a = 0 THEN Up ELSE Left]
    /\ max_steps = MaxStepsLocks
    /\ inputs = [a \in 0 .. 1 |-> IF a = 0 THEN {ActRight, ActPickup, ActToggle}
                                  ELSE {ActLeft, ActPickup, ActToggle}]
    /\ InitCommon

SpecLocks == (InitPair \/ InitLocks) /\ [][Next]_vars

\* ------------------------------------------------------------------------
\* The view window of one agent: two agents of the multi-agent engine stand
\* on any two cells of the empty walled room, facing any direction, and the
\* window of one of them is laid out.  window_mask then holds the observer,
\* and window the position of the grid each cell of the window shows
\* (gen_obs_grid) and the window coordinates of every cell of the grid
\* (get_view_coords).
\* ------------------------------------------------------------------------
InteriorCells == {p \in Cells : WallRect[p] = None}

InitView ==
    /\ grid = WallRect
    /\ is_open = [d \in Doors |-> FALSE]
    /\ is_locked = [d \in Doors |-> d = DoorGreen]
    /\ \E p0, p1 \in InteriorCells :
          /\ p0 # p1
          /\ agent_poses = [a \in 0 .. 1 |-> IF a = 0 THEN p0 ELSE p1]
    /\ agent_dirs \in [0 .. 1 -> 0 .. 3]
    /\ max_steps = 0
    /\ inputs = [a \in 0 .. 1 |-> {}]
    /\ InitCounters
    /\ variant = "view"
    /\ goal_poses = <<>>
    /\ twin = "none"
    /\ NoObservations

ViewOf(agent_id) ==
    /\ variant = "view"
    /\ window_mask = {}
    /\ window_mask' = {agent_id}
    /\ window' = [where |-> SlicedRotated(World, agent_id),
                  coords |-> [p \in Cells |-> get_view_coords(World, agent_id, p)]]
    /\ UNCHANGED <<engineVars, orig_agent_poses, past_obs, combined_obs, shared_obs,
                   comm_actions, heard>>

ViewNext == \E a \in DOMAIN agent_poses : ViewOf(a)

SpecView == InitView /\ [][ViewNext]_vars

\* ------------------------------------------------------------------------
\* Both engines side by side: one agent (index 0, red) of the multi-agent
\* engine in a room without a Box whose only liftable entity is red; every
\* step() call is also made on a single-agent engine in the same state, and
\* twin holds what that call leaves and returns.
\*      W  Kr a  Dy b  G  W        Kr red key, Dy closed yellow door, G goal
\*      W  .  Dr .  c  L  W        Dr locked red door, L lava
\* the agent starts at a facing left or right, or at b or c facing right
\* ------------------------------------------------------------------------
BothGrid ==
    PutObj(PutObj(PutObj(PutObj(PutObj(WallRect, KeyRed, <<1, 1>>), DoorYellow, <<3, 1>>),
                         DoorRed, <<2, 2>>), TheGoal, <<5, 1>>), TheLava, <<5, 2>>)

BothStarts ==
    {<<<<2, 1>>, Left>>, <<<<2, 1>>, Right>>, <<<<4, 1>>, Right>>, <<<<4, 2>>, Right>>}

InitBoth ==
    /\ grid = BothGrid
    /\ is_open = [d \in Doors |-> FALSE]
    /\ is_locked = [d \in Doors |-> d = DoorRed]
    /\ \E st \in BothStarts :
          /\ agent_poses = [a \in {0} |-> st[1]]
          /\ agent_dirs = [a \in {0} |-> st[2]]
    /\ max_steps = MaxStepsBoth
    /\ inputs = [a \in {0} |-> Actions]
    /\ InitCounters
    /\ variant = "both"
    /\ goal_poses = <<>>
    /\ twin = [w |-> World, raised |-> "none", done |-> FALSE, reward |-> 0]
    /\ NoObservations

BothStep(action) ==
    /\ variant = "both"
    /\ raised = "none"
    /\ step_count < max_steps
    /\ \E r \in {StepResult(World, [a \in {0} |-> action], IndexOrder(1))} :
        /\ grid' = r.L.w.grid
        /\ is_open' = r.L.w.is_open
        /\ is_locked' = r.L.w.is_locked
        /\ agent_poses' = r.L.w.agent_poses
        /\ agent_dirs' = r.L.w.agent_dirs
        /\ carrying_objects' = r.L.w.carrying_objects
        /\ raised' = r.raised
        /\ verdicts' = r.verdicts
        /\ done' = (r.L.done \/ step_count + 1 >= max_steps)
        /\ reward' = IF r.L.rewarded THEN Reward(step_count + 1, max_steps) ELSE 0
    /\ \E t \in {SoloStepResult(World, action)} :
        twin' = [w |-> t.L.w,
                 raised |-> t.raised,
                 done |-> (t.L.done \/ step_count + 1 >= max_steps),
                 reward |-> IF t.L.rewarded THEN Reward(step_count + 1, max_steps)
                            ELSE 0]
    /\ step_count' = step_count + 1
    /\ actions' = [a \in {0} |-> action]
    /\ snapshot' = World
    /\ UNCHANGED <<max_steps, inputs, variant, goal_poses, rewards, obsVars>>

BothNext == \E action \in inputs[0] : BothStep(action)

SpecBoth == InitBoth /\ [][BothNext]_vars

\* ------------------------------------------------------------------------
\* Claims
\* ------------------------------------------------------------------------
Ticked == step_count > 0 /\ raised = "none"

Agents == DOMAIN agent_poses

Moved(a) == agent_poses[a] # snapshot.agent_poses[a]

\* C1: from a reset state with the agents in distinct cells, after any
\* sequence of step() calls no two agents occupy the same cell.
C1_NoTwoAgentsShareCell ==
    \A a, b \in Agents : a # b => agent_poses[a] # agent_poses[b]

\* the sequences that hold every element of S once
RECURSIVE Orderings(_)
Orderings(S) ==
    IF S = {} THEN {<<>>}
    ELSE UNION {{Append(o, x) : o \in Orderings(S \ {x})} : x \in S}

\* the orders the loop of step() could take n agents in
Orders(n) == Orderings(0 .. n - 1)

\* C2: the world after a tick (grid, door states, agent positions,
\* directions, carried entities) is the same whichever order the
\* check-and-apply loop of step() takes the agents in.
C2_OrderIndependent ==
    Ticked =>
        \A order \in Orders(NumAgents(World)) :
            StepResult(snapshot, actions, order).L.w = World

\* C3: the verdict collision_checker returned for an agent inside the
\* interleaved check-then-apply loop equals the verdict it computes for that
\* agent on the unmodified pre-tick world.
C3_VerdictsFromSnapshot ==
    step_count > 0 =>
        \A a \in Agents :
            verdicts[a] # "none" =>
                verdicts[a] = collision_checker(StepContext(snapshot, actions),
                                                snapshot, a, {})

\* C3 witness: an agent was checked valid through the agent in front of it
\* after that agent, of lower index, had already been moved by the loop.
C3_Witness ==
    /\ Ticked
    /\ \E a, b \in Agents :
          /\ a < b
          /\ Moved(a)
          /\ actions[b] = ActForward
          /\ FrontPos(snapshot, b) = snapshot.agent_poses[a]
          /\ verdicts[b] = "True"

\* The cells holding no entity and no agent before the tick.
FreeBefore(p) ==
    /\ snapshot.grid[p] = None
    /\ \A a \in Agents : snapshot.agent_poses[a] # p

Front(a) == FrontPos(snapshot, a)

MovesInto(a, p) == actions[a] = ActForward /\ Front(a) = p

\* C4: when two or more agents issue move-forward into the same currently
\* empty cell in one tick, none of them moves.
C4_SharedTargetNobodyMoves ==
    Ticked =>
        \A a, b \in Agents :
            (a # b /\ MovesInto(a, Front(a)) /\ MovesInto(b, Front(a))
                   /\ FreeBefore(Front(a)))
            => ~Moved(a) /\ ~Moved(b)

\* C4 witness: three agents have issued move-forward into one free cell.
C4_Witness ==
    /\ Ticked
    /\ \E p \in Cells :
          /\ FreeBefore(p)
          /\ Cardinality({a \in Agents : MovesInto(a, p)}) = 3
          /\ \A a \in Agents : ~Moved(a)

FacingEachOther(a, b) ==
    /\ a # b
    /\ Front(a) = snapshot.agent_poses[b]
    /\ Front(b) = snapshot.agent_poses[a]

\* C5: two agents in adjacent cells facing each other that both issue
\* move-forward both remain in place.
C5_HeadOnBothStay ==
    Ticked =>
        \A a, b \in Agents :
            (FacingEachOther(a, b) /\ actions[a] = ActForward /\ actions[b] = ActForward)
            => ~Moved(a) /\ ~Moved(b)

\* the agents of ln that have no agent of ln in their forward cell
Heads(ln) == {m \in ln : \A n \in ln : Front(m) # snapshot.agent_poses[n]}

\* Lines of agents: two or more agents in distinct cells, all facing the
\* same way, each but one (the leader) with another of them in its forward
\* cell.
Lines ==
    {ln \in SUBSET Agents :
        /\ Cardinality(ln) >= 2
        /\ \A m, n \in ln :
              /\ snapshot.agent_dirs[m] = snapshot.agent_dirs[n]
              /\ m # n => snapshot.agent_poses[m] # snapshot.agent_poses[n]
        /\ Cardinality(Heads(ln)) = 1}

Members(ln) == ln

Leader(ln) == CHOOSE m \in Heads(ln) : TRUE

\* the front cell is empty and nobody outside the line targets it
FrontClear(ln) ==
    /\ FreeBefore(Front(Leader(ln)))
    /\ \A z \in Agents \ Members(ln) :
          /\ ~MovesInto(z, Front(Leader(ln)))
          /\ ~(actions[z] \in {ActDrop, ActToggle, ActPickup}
               /\ Front(z) = Front(Leader(ln)))

AllAdvance(ln) == \A m \in Members(ln) : agent_poses[m] = Front(m)

Targets(ln) == {Front(m) : m \in Members(ln)}

\* every cell the line moves into holds nothing or an entity that can be
\* overlapped, and no agent outside the line stands on such a cell or acts
\* on it
Undisturbed(ln) ==
    /\ \A p \in Targets(ln) :
          snapshot.grid[p] = None \/ CanOverlap(snapshot, snapshot.grid[p])
    /\ \A z \in Agents \ Members(ln) :
          /\ snapshot.agent_poses[z] \notin Targets(ln)
          /\ Front(z) \in Targets(ln) =>
                actions[z] \notin {ActForward, ActDrop, ActToggle, ActPickup}

Claimants(act, p) ==
    {a \in Agents :
        /\ actions[a] = act
        /\ Front(a) = p
        /\ CASE act = ActForward -> TRUE
             [] act = ActDrop -> snapshot.carrying_objects[a] # None
             [] act = ActPickup ->
                    snapshot.grid[p] # None /\ MaCanPickup(snapshot.grid[p], a)
             [] act = ActToggle ->
                    snapshot.grid[p] # None /\ MaCheckToggle(snapshot, snapshot.grid[p], a)
             [] OTHER -> FALSE}

ContestedActs == {ActForward, ActDrop, ActPickup, ActToggle}

DoorStateKept(p) ==
    snapshot.grid[p] \in Doors =>
        /\ is_open[snapshot.grid[p]] = snapshot.is_open[snapshot.grid[p]]
        /\ is_locked[snapshot.grid[p]] = snapshot.is_locked[snapshot.grid[p]]

ClaimantsKept(S) ==
    \A a \in S : /\ ~Moved(a)
                 /\ carrying_objects[a] = snapshot.carrying_objects[a]

\* C7 as stated: when two or more agents are eligible claimants of one cell
\* with one action type, the cell's content, the Door's state, the agents'
\* positions and their carried entities are as before the tick.
C7_ContestLeavesAllAsBefore ==
    Ticked =>
        \A act \in ContestedActs : \A p \in Cells :
            Cardinality(Claimants(act, p)) >= 2 =>
                /\ grid[p] = snapshot.grid[p]
                /\ DoorStateKept(p)
                /\ ClaimantsKept(Claimants(act, p))

\* some agent that is no claimant picked the entity of cell p up
PickedUpByOther(S, p) ==
    \E z \in Agents \ S :
        /\ actions[z] = ActPickup
        /\ Front(z) = p
        /\ snapshot.carrying_objects[z] = None
        /\ carrying_objects[z] = snapshot.grid[p]
        /\ grid[p] = None

\* some agent that is no claimant toggled the Door of cell p
ToggledByOther(S, p) ==
    \E z \in Agents \ S :
        /\ actions[z] = ActToggle
        /\ Front(z) = p
        /\ verdicts[z] = "True"

\* C7 amended: the contested actions take no effect: the claimants'
\* positions and their carried entities are as before the tick, and the
\* cell's content and the Door's state are as before unless an agent that
\* is none of the claimants picks the entity up or toggles the Door in that
\* tick.
C7_ContestTakesNoEffect ==
    Ticked =>
        \A act \in ContestedActs : \A p \in Cells :
            Cardinality(Claimants(act, p)) >= 2 =>
                /\ grid[p] = snapshot.grid[p] \/ PickedUpByOther(Claimants(act, p), p)
                /\ DoorStateKept(p) \/ ToggledByOther(Claimants(act, p), p)
                /\ ClaimantsKept(Claimants(act, p))

\* two agents that both carry an entity have issued drop toward the same
\* free cell
ContestedDrop ==
    /\ Ticked
    /\ \E p \in Cells :
          /\ FreeBefore(p)
          /\ Cardinality(Claimants(ActDrop, p)) >= 2
          /\ grid[p] = None

\* C7 witness: two agents of the colour of a key have issued pickup on it
\* in one tick, and the key is still in its cell.
C7_Witness ==
    /\ Ticked
    /\ \E p \in Cells :
          /\ Cardinality(Claimants(ActPickup, p)) = 2
          /\ grid[p] = snapshot.grid[p]
          /\ \A a \in Claimants(ActPickup, p) : carrying_objects[a] = None

Present(w, o) ==
    \/ \E p \in Cells : w.grid[p] = o
    \/ \E a \in AgentsOf(w) : w.carrying_objects[a] = o

EntitiesOf(w) ==
    ({w.grid[p] : p \in Cells} \cup {w.carrying_objects[a] : a \in AgentsOf(w)})
        \ {None}

\* C8: every entity that was in a grid cell or a carrying slot before a
\* tick is in a grid cell or a carrying slot after it.
C8_NoEntityLost ==
    \A o \in EntitiesOf(snapshot) : Present(World, o)

\* C9: no entity is held in more than one place: not in two grid cells,
\* not in two carrying slots, not in a grid cell and a carrying slot.
C9_EntityInOnePlace ==
    /\ Cardinality({p \in Cells : grid[p] # None})
          = Cardinality({grid[p] : p \in Cells} \ {None})
    /\ \A a, b \in Agents :
          (a # b /\ carrying_objects[a] # None)
          => carrying_objects[a] # carrying_objects[b]
    /\ \A a \in Agents : \A p \in Cells :
          carrying_objects[a] # None => grid[p] # carrying_objects[a]

\* C9 witness: in one tick an agent has picked an entity up and another has
\* dropped the entity it carried.
C9_Witness ==
    /\ Ticked
    /\ \E a, b \in Agents :
          /\ snapshot.carrying_objects[a] = None /\ carrying_objects[a] # None
          /\ snapshot.carrying_objects[b] # None /\ carrying_objects[b] = None
          /\ Present(World, snapshot.carrying_objects[b])

\* C10: the cell under each agent is empty or holds an entity that can be
\* overlapped.
C10_AgentsOnPassableCells ==
    \A a \in Agents :
        \/ grid[agent_poses[a]] = None
        \/ CanOverlap(World, grid[agent_poses[a]])

\* ------------------------------------------------------------------------
\* Door unlock contract
\* ------------------------------------------------------------------------
TogglesLocked(a, o) ==
    /\ actions[a] = ActToggle
    /\ InBounds(Front(a))
    /\ snapshot.grid[Front(a)] = o
    /\ snapshot.is_locked[o]

SoleActor(a) ==
    \A b \in Agents \ {a} :
        ~(actions[b] \in ContestedActs /\ Front(b) = Front(a))

Held(a) == snapshot.carrying_objects[a]

HoldsKeyOf(a, o) ==
    Held(a) # None /\ ObjType(Held(a)) = "key" /\ ObjColor(Held(a)) = ObjColor(o)

\* C11: a toggle of a locked Door by the only agent acting on its cell
\* leaves the Door open and unlocked if the agent carries a Key of the
\* Door's colour, and locked and closed if it carries nothing, a non-Key or
\* a Key of another colour; in the single-agent and the multi-agent engine.
C11_LockedDoorOpensWithItsKeyOnly ==
    Ticked =>
        \A a \in Agents : \A o \in Doors :
            TogglesLocked(a, o) /\ SoleActor(a) =>
                IF HoldsKeyOf(a, o)
                THEN is_open[o] /\ ~is_locked[o]
                ELSE ~is_open[o] /\ is_locked[o]

\* a red key held by the sole agent toggling the locked green door in the
\* multi-agent engine
C11_Witness ==
    /\ Ticked
    /\ variant = "multi"
    /\ \E a \in Agents :
          /\ TogglesLocked(a, DoorGreen)
          /\ SoleActor(a)
          /\ Held(a) = KeyRed
          /\ is_locked[DoorGreen]

\* ------------------------------------------------------------------------
\* Termination and rewards
\* ------------------------------------------------------------------------
\* C12: in every environment variant a step() call that brings the step
\* counter to max_steps or beyond returns done = true, whatever the goal
\* state.
C12_MaxStepsEndsEpisode ==
    Ticked /\ step_count >= max_steps => done

AgentColor(a) == IDX_TO_COLOR[(a % NumColors) + 1]

OnOwnGoal(a) ==
    /\ grid[agent_poses[a]] # None
    /\ ObjType(grid[agent_poses[a]]) = "goal"
    /\ ObjColor(grid[agent_poses[a]]) = AgentColor(a)

\* C13: in the multi-goal variant step() returns done = true exactly when
\* every agent stands, after the tick, on the goal of its own colour, and
\* each agent's reward is 1 if it stands on its own goal and 0 otherwise.
C13_DoneWhenAllOnOwnGoals ==
    Ticked /\ variant = "multigoal" =>
        /\ done <=> \A a \in Agents : OnOwnGoal(a)
        /\ \A a \in Agents : rewards[a + 1] = IF OnOwnGoal(a) THEN 1 ELSE 0

\* agent 0 stands on its own goal while agent 1 is off its goal: the
\* episode continues
C13_Witness ==
    /\ Ticked
    /\ variant = "multigoal"
    /\ OnOwnGoal(0)
    /\ ~OnOwnGoal(1)
    /\ rewards = <<1, 0>>
    /\ ~done

\* agent a made a forward move in this tick and now stands on an entity of
\* the given type
MovedOnto(a, type) ==
    /\ actions[a] = ActForward
    /\ Moved(a)
    /\ agent_poses[a] = Front(a)
    /\ snapshot.grid[Front(a)] # None
    /\ ObjType(snapshot.grid[Front(a)]) = type

\* C14: in the single-goal variants a tick in which a valid forward move
\* takes an agent onto a Goal returns done = true and the reward
\* 1 - 0.9 * (k / max_steps), k the step count including this tick; for
\* 1 <= k <= max_steps the reward lies in (0, 1] and is strictly smaller
\* for larger k.  The reward is held as a multiple of 1 / (10 * max_steps).
C14_GoalRewardDecays ==
    /\ Ticked /\ variant \in {"single", "multi"} =>
          \A a \in Agents :
              MovedOnto(a, "goal") =>
                  /\ done
                  /\ reward + 9 * step_count = 10 * max_steps
                  /\ 0 < reward /\ reward <= 10 * max_steps
    /\ \A j, k \in 1 .. max_steps :
          j < k => Reward(k, max_steps) < Reward(j, max_steps)

\* in the multi-agent engine an agent moves onto the Goal in a tick later
\* than the first
C14_Witness ==
    /\ Ticked
    /\ variant = "multi"
    /\ step_count > 1
    /\ \E a \in Agents : MovedOnto(a, "goal")
    /\ done
    /\ reward = 10 * max_steps - 9 * step_count

\* C15: any tick in which an agent moves onto a Lava cell returns
\* done = true with reward 0, in the single-agent engine and in the
\* multi-agent engine whatever the other agents do in that tick.
C15_LavaEndsWithZeroReward ==
    Ticked /\ variant \in {"single", "multi"} =>
        \A a \in Agents : MovedOnto(a, "lava") => done /\ reward = 0

\* C15 in the single-agent engine
C15_LavaEndsWithZeroRewardSolo ==
    Ticked /\ variant = "single" =>
        \A a \in Agents : MovedOnto(a, "lava") => done /\ reward = 0

\* C15, the part that every tick with a move onto Lava returns done = true
C15_LavaEndsEpisode ==
    Ticked /\ variant \in {"single", "multi"} =>
        \A a \in Agents : MovedOnto(a, "lava") => done

\* ------------------------------------------------------------------------
\* Array encoding
\* ------------------------------------------------------------------------
Original(p) == IF grid[p] = None THEN NoObj ELSE ObjIn(World, grid[p])

\* C18: for a grid holding any entities the environments create and a fully
\* true mask, Grid.decode(Grid.encode(grid)) holds in every cell an entity of
\* the type, colour and state of the original, and an empty cell where the
\* original was empty.
C18_DecodeInvertsEncode ==
    \E d \in {GridDecode(GridEncode(World))} :
        /\ d.raised = "none"
        /\ \A p \in Cells : d.grid[p] = Original(p)

\* C18 for every cell that holds no Goal of a colour other than green
C18_DecodeInvertsEncodeButGoalColor ==
    \E d \in {GridDecode(GridEncode(World))} :
        /\ d.raised = "none"
        /\ \A p \in Cells : grid[p] # GoalRed => d.grid[p] = Original(p)

\* ------------------------------------------------------------------------
\* Observations
\* ------------------------------------------------------------------------
MultiAgent == variant \in {"multi", "multigoal"}

\* the position in the grid that a cell of an agent's view shows, from the
\* slice of the grid the view is and its rotation
Shown(a) ==
    Rotated(Slice(get_view_exts(World, a), agent_view_size, agent_view_size),
            agent_dirs[a] + 1, agent_view_size, agent_view_size)

\* C19: decoding an observation cell that carries the agent marker (type
\* index 10) or the unseen marker (type index 0) completes without error and
\* yields no entity.
C19_MarkersDecodeToNothing ==
    MultiAgent =>
        \A a \in Agents : \E obs \in {gen_obs(World)[a]} :
            \A q \in ViewCells :
                obs.image[q][1] \in {0, 10} =>
                    \E d \in {WorldObjDecode(obs.image[q][1], obs.image[q][2],
                                             obs.image[q][3])} :
                        d.raised = "none" /\ d.v = NoObj

\* C19 for the unseen marker alone
C19_UnseenDecodesToNothing ==
    MultiAgent =>
        \A a \in Agents : \E obs \in {gen_obs(World)[a]} :
            \A q \in ViewCells :
                obs.image[q][1] = 0 =>
                    \E d \in {WorldObjDecode(obs.image[q][1], obs.image[q][2],
                                             obs.image[q][3])} :
                        d.raised = "none" /\ d.v = NoObj

\* the cells of a's view that show the cell agent b stands on
ShownAt(a, b) == {q \in ViewCells : Shown(a)[q] = agent_poses[b]}

Marker(b) == <<10, b % 6, agent_dirs[b]>>

\* C20: in a multi-agent observation every cell inside the observer's
\* visibility mask on which another agent stands is encoded as (10, that
\* agent's index modulo 6, that agent's direction), whatever the cell holds
\* (nothing, Floor, Goal, Lava, open Door).
C20_OtherAgentsAreMarked ==
    MultiAgent =>
        \A a \in Agents : \E obs \in {gen_obs(World)[a]} :
            \A b \in Agents \ {a} : \A q \in ShownAt(a, b) :
                q \in obs.vis_mask => obs.image[q] = Marker(b)

\* C20 for the agents that stand alone on a cell that holds no entity
C20_OtherAgentsOnEmptyCellsAreMarked ==
    MultiAgent =>
        \A a \in Agents : \E obs \in {gen_obs(World)[a]} :
            \A b \in Agents \ {a} : \A q \in ShownAt(a, b) :
                /\ q \in obs.vis_mask
                /\ grid[agent_poses[b]] = None
                /\ \A c \in Agents \ {b} : agent_poses[c] # agent_poses[b]
                => obs.image[q] = Marker(b)

\* ------------------------------------------------------------------------
\* Determinism and the state hash
\* ------------------------------------------------------------------------
SameOutcome ==
    /\ twin.w = World
    /\ twin.raised = raised
    /\ twin.done = done
    /\ twin.reward = reward
    /\ gen_obs(twin.w) = gen_obs(World)

C17_HashDataIdentifyState ==
    variant = "two runs" => (to_encode(twin.w) = to_encode(World) => twin.w = World)

\* ------------------------------------------------------------------------
\* Visibility (Grid.process_vis)
\* ------------------------------------------------------------------------
Opaque(g, p) == g[p] # NoObj /\ ~see_behind(g[p])

\* a link of a chain: to the cell beside p in its row, or to one of the three
\* cells next to p in the row farther from the observer
Link(p, q) ==
    \/ q[2] = p[2] /\ q[1] \in {p[1] - 1, p[1] + 1}
    \/ q[2] = p[2] - 1 /\ q[1] \in {p[1] - 1, p[1], p[1] + 1}

\* the cells of seen that a chain of seen, non-opaque cells reaches
RECURSIVE ChainReach(_, _, _)
ChainReach(g, seen, reached) ==
    LET more == {q \in seen : q \in reached \/
                    \E p \in reached : ~Opaque(g, p) /\ Link(p, q)}
    IN IF more = reached THEN reached ELSE ChainReach(g, seen, more)

Processed == variant = "window" /\ window_mask # {}

\* C21: process_vis marks a cell visible only if it is the anchor cell or a
\* chain of visible, non-opaque cells leads to it from the anchor, each link
\* going to the cell beside in the same row or to one of the three nearest
\* cells of the next row farther from the agent.
C21_VisibleOnlyByChain ==
    Processed => window_mask \subseteq ChainReach(snapshot, window_mask, {Anchor})

C21_Witness ==
    /\ Processed
    /\ \E p \in window_mask : Opaque(snapshot, p)
    /\ \E q \in ViewCells : q \notin window_mask
    /\ \E q \in window_mask : q[2] < agent_view_size - MaxDepth

Nearer(q) == <<q[1], q[2] + 1>>

\* C22: a cell whose neighbour one row nearer the agent in the same column
\* is opaque (a Wall or a Door that is not open) is never marked visible.
C22_NothingSeenBehindOpaque ==
    Processed =>
        \A q \in window_mask :
            q[2] < agent_view_size - 1 => ~Opaque(snapshot, Nearer(q))

\* ------------------------------------------------------------------------
\* Action indices outside the enumeration
\* ------------------------------------------------------------------------
UnknownSent == step_count > 0 /\ \E a \in DOMAIN actions : actions[a] \notin Actions

\* C24: a step() call in which some agent's action index is outside 0..6
\* ends in a fatal error, in the single-agent engine and in the multi-agent
\* engine alike.
C24_UnknownActionIsFatal ==
    (variant \in {"single", "multi"} /\ UnknownSent) => raised = "AssertionError"

\* the single-agent engine alone does end such a call in an AssertionError,
\* with nothing but the step counter changed
C24_UnknownActionIsFatalSolo ==
    (variant = "single" /\ UnknownSent) =>
        raised = "AssertionError" /\ World = snapshot

\* ------------------------------------------------------------------------
\* Boxes
\* ------------------------------------------------------------------------
TogglesBox(a) ==
    /\ actions[a] = ActToggle
    /\ InBounds(Front(a))
    /\ snapshot.grid[Front(a)] # None
    /\ ObjType(snapshot.grid[Front(a)]) = "box"

\* C25: in the single-agent and in the multi-agent engine, an uncontested
\* toggle action on a Box replaces the Box in its grid cell by the entity it
\* contains, or empties the cell when it contains nothing.
C25_ToggleOpensBox ==
    (Ticked /\ variant \in {"single", "multi"}) =>
        \A a \in Agents :
            (TogglesBox(a) /\ SoleActor(a)) =>
                grid[Front(a)] = Contains(snapshot.grid[Front(a)])

\* the single-agent engine alone does open the Box
C25_ToggleOpensBoxSolo ==
    (Ticked /\ variant = "single") =>
        (TogglesBox(0) => grid[Front(0)] = Contains(snapshot.grid[Front(0)]))

OnGrid(o) == \E p \in Cells : grid[p] = o

\* and in the single-agent engine a Box that is neither on the grid nor
\* carried is on no cell after any later step()
C25_OpenedBoxStaysGone ==
    [][\A b \in {BoxRed, BoxGreen} :
          (variant = "single" /\ ~OnGrid(b) /\ carrying_objects[0] # b) => ~OnGrid(b)']_vars

\* ------------------------------------------------------------------------
\* Turning and declaring done
\* ------------------------------------------------------------------------
Unintruding == {ActLeft, ActRight, ActDone}

MultiTicked == Ticked /\ variant \in {"multi", "multigoal"}

TurnedTo(a) ==
    CASE actions[a] = ActLeft -> (snapshot.agent_dirs[a] + 3) % 4
      [] actions[a] = ActRight -> (snapshot.agent_dirs[a] + 1) % 4
      [] OTHER -> snapshot.agent_dirs[a]

CommTicked == variant = "comm" /\ step_count > 0 /\ raised = "none" /\ window_mask = {}

Rendered == variant = "comm" /\ window_mask # {}

\* the world the physics of the last communicative tick computes from the
\* world before it
PhysicsOf(w, acts) == StepResult(w, acts, IndexOrder(NumAgents(w))).L.w

Senders(a) ==
    {b \in Agents \ {a} :
        comm_actions[b] # 0 /\ SqDist(heard.poses[a], heard.poses[b]) < CommRange * CommRange}

\* the type index of sender b's stored entry for cell c
StoredType(b, c) == heard.obs[b].image[c][1]

\* cell c is outside receiver a's mask and sender b's stored entry for it is
\* seen, non-empty and not an agent marker
OffersEntity(a, b, c) ==
    /\ c \notin combined_obs[a].vis_mask
    /\ StoredType(b, c) \notin {OBJECT_TO_IDX("unseen"), OBJECT_TO_IDX("empty"),
                                OBJECT_TO_IDX("agent")}

\* cell c is outside receiver a's mask and sender b's stored entry for it is
\* seen and not an agent marker; the entry of an empty cell counts
OffersSeen(a, b, c) ==
    /\ c \notin combined_obs[a].vis_mask
    /\ StoredType(b, c) \notin {OBJECT_TO_IDX("unseen"), OBJECT_TO_IDX("agent")}

\* C26 as stated: after a communicative tick the cells of a receiver's
\* shared observation that differ from its private observation are exactly
\* the cells outside its mask for which some signalling in-range sender's
\* stored entry is seen, non-empty and not an agent marker, and each such
\* cell holds the stored triple of such a sender.
C26_SharedDiffersWhereEntityHeard ==
    CommTicked =>
        \A a \in Agents : \A c \in Cells :
            IF \E b \in Senders(a) : OffersEntity(a, b, c)
            THEN /\ shared_obs[a].image[c] # combined_obs[a].image[c]
                 /\ \E b \in Senders(a) :
                       /\ OffersEntity(a, b, c)
                       /\ shared_obs[a].image[c] = heard.obs[b].image[c]
            ELSE shared_obs[a].image[c] = combined_obs[a].image[c]

\* C26, amended: the cells that differ are exactly the cells outside the
\* receiver's mask for which some signalling in-range sender's stored entry
\* is seen and not an agent marker, the entry of an empty cell included;
\* each such cell holds the stored triple of the sender with the highest
\* index among them, and every other cell equals the private observation.
C26_SharedDiffersWhereSeenHeard ==
    CommTicked =>
        \A a \in Agents : \A c \in Cells :
            LET offering == {b \in Senders(a) : OffersSeen(a, b, c)}
            IN IF offering = {}
               THEN shared_obs[a].image[c] = combined_obs[a].image[c]
               ELSE /\ shared_obs[a].image[c] # combined_obs[a].image[c]
                    /\ shared_obs[a].image[c] = heard.obs[Max(offering)].image[c]

\* receiver 2 hears agents 0 and 1 about the cell of the floor tile, which
\* it does not see: agent 0, standing on it, stored an empty cell and agent
\* 1 stored the tile; it also hears of a cell that is empty
C26_Witness ==
    /\ CommTicked
    /\ Senders(2) = {0, 1}
    /\ OffersSeen(2, 0, <<2, 1>>) /\ OffersSeen(2, 1, <<2, 1>>)
    /\ StoredType(0, <<2, 1>>) = OBJECT_TO_IDX("empty")
    /\ StoredType(1, <<2, 1>>) = OBJECT_TO_IDX("floor")
    /\ shared_obs[2].image[<<2, 1>>][1] = OBJECT_TO_IDX("floor")
    /\ \E c \in Cells : /\ c \notin combined_obs[2].vis_mask
                         /\ shared_obs[2].image[c][1] = OBJECT_TO_IDX("empty")

\* some cell of receiver a's shared observation holds what sender b stored
\* for it and not what a observed itself
MergedFrom(a, b) ==
    \E c \in Cells :
        /\ shared_obs[a].image[c] # combined_obs[a].image[c]
        /\ shared_obs[a].image[c] = heard.obs[b].image[c]

\* the squared distance of two agents before the last tick's actions
SqDistBefore(a, b) == SqDist(snapshot.agent_poses[a], snapshot.agent_poses[b])

\* C27: a sender's stored observation is merged into a receiver's shared
\* observation only if the sender's communicate flag is set in this tick
\* and the squared distance of the two agents' positions before the tick's
\* actions is below 9; whenever both hold, every cell the sender has
\* something to say about is overwritten, whatever the positions after the
\* tick and the receiver's own flag are.
C27_MergedOnlyFromSignallingNeighbours ==
    CommTicked =>
        \A a \in Agents :
            /\ \A c \in Cells :
                  shared_obs[a].image[c] # combined_obs[a].image[c] =>
                      \E b \in Agents \ {a} :
                          /\ comm_actions[b] # 0
                          /\ SqDistBefore(a, b) < 9
                          /\ shared_obs[a].image[c] = heard.obs[b].image[c]
            /\ \A b \in Agents \ {a} : \A c \in Cells :
                  (/\ comm_actions[b] # 0
                   /\ SqDistBefore(a, b) < 9
                   /\ OffersSeen(a, b, c)) =>
                      shared_obs[a].image[c] # combined_obs[a].image[c]

\* agent 0 signals in the tick in which it steps into the range of agent 2:
\* the two are in range after the tick and were not before it, agent 0 saw
\* cells agent 2 does not see, and agent 2, which nobody else signals to,
\* hears nothing, while agent 1, in range before the tick and silent itself,
\* hears agent 0
C27_Witness ==
    /\ CommTicked
    /\ comm_actions[0] # 0 /\ comm_actions[1] = 0
    /\ SqDistBefore(0, 2) >= 9
    /\ SqDist(agent_poses[0], agent_poses[2]) < 9
    /\ \E c \in Cells : OffersSeen(2, 0, c)
    /\ shared_obs[2] = combined_obs[2]
    /\ SqDistBefore(0, 1) < 9
    /\ MergedFrom(1, 0)

\* C28: what a sender contributes in a tick is its private observation of
\* the world as the tick before left it (of the world after reset() in the
\* first tick), and step(), which returns the shared observations, stores
\* the private ones for the next tick.
C28_SendersContributePrivateObs ==
    CommTicked =>
        /\ heard.obs = PrivateObs(snapshot)
        /\ past_obs = combined_obs
        /\ past_obs = PrivateObs(World)

\* in the tick before, agent 1 was told of the key at <<5, 1>>, which it did
\* not see; in this tick it signals to agent 0, which does not see the key
\* either, and agent 0 is not told of it
C28_Witness ==
    /\ CommTicked
    /\ step_count = 2
    /\ heard.returned[1].image[<<5, 1>>][1] = OBJECT_TO_IDX("key")
    /\ heard.obs[1].image[<<5, 1>>][1] = OBJECT_TO_IDX("unseen")
    /\ 1 \in Senders(0)
    /\ <<5, 1>> \notin combined_obs[0].vis_mask
    /\ shared_obs[0].image[<<5, 1>>][1] = OBJECT_TO_IDX("unseen")

RetrieveTicked == variant \in {"retrieve", "retrieve solo"} /\ Ticked

Carried(w, o) == \E a \in AgentsOf(w) : w.carrying_objects[a] = o

\* C31: in the episodes that end with the retrieval of the designated
\* object, the step() in which the object becomes carried by an agent
\* returns done = True and the reward 1 - 0.9 * step_count / max_steps, and
\* a step() after which the object is still on the grid returns what the
\* engine's step() returns (no reward, done only at max_steps).
C31_RetrievalEndsEpisode ==
    RetrieveTicked =>
        /\ (~Carried(snapshot, obj) /\ Carried(World, obj)) =>
              done /\ reward = Reward(step_count, max_steps)
        /\ OnGrid(obj) =>
              reward = 0 /\ (done <=> step_count >= max_steps)

\* the green agent picks the ball up in the second tick of an episode of
\* the multi-agent engine
C31_Witness ==
    /\ variant = "retrieve" /\ Ticked
    /\ step_count = 2
    /\ snapshot.grid[<<4, 1>>] = obj
    /\ carrying_objects[1] = obj
    /\ done
    /\ reward = Reward(2, MaxStepsRetrieve)

\* ------------------------------------------------------------------------
\* The recursion of collision_checker
\* ------------------------------------------------------------------------
\* C32: step() comes to an end for every arrangement of the agents and every
\* action vector: the recursive check of whether the agent in the forward
\* cell vacates it returns after finitely many calls, also when four agents
\* stand in a closed ring and each moves forward into the cell of the next.
C32_CollisionCheckReturns == raised # "RecursionError"

\* ------------------------------------------------------------------------
\* Moving into a cell whose entity is picked up
\* ------------------------------------------------------------------------
\* agent m moves forward into a cell whose entity agent q alone may pick up
\* and does pick up in the tick; no other agent acts on the cell or stands
\* on it
MovesIntoPicked(m, q) ==
    /\ m # q
    /\ actions[m] = ActForward
    /\ snapshot.grid[Front(m)] # None
    /\ Claimants(ActPickup, Front(m)) = {q}
    /\ \A z \in Agents \ {m, q} :
          ~(actions[z] \in ContestedActs /\ Front(z) = Front(m))
    /\ \A z \in Agents : snapshot.agent_poses[z] # Front(m)

\* C33: when an agent moves forward into a cell whose entity is, in the same
\* tick, the pickup target of exactly one legal claimant, and nothing else
\* contends for the cell, then after the tick the mover occupies the cell,
\* the entity is in the claimant's carrying slot and the cell holds no
\* entity.
C33_MoverTakesCellOfPickedEntity ==
    Ticked =>
        \A m, q \in Agents :
            MovesIntoPicked(m, q) =>
                /\ agent_poses[m] = Front(m)
                /\ carrying_objects[q] = snapshot.grid[Front(m)]
                /\ grid[Front(m)] = None

\* with the claimant's hands free the tick ends as described
C33_MoverTakesCellWhenHandsFree ==
    Ticked =>
        \A m, q \in Agents :
            (MovesIntoPicked(m, q) /\ snapshot.carrying_objects[q] = None) =>
                /\ agent_poses[m] = Front(m)
                /\ carrying_objects[q] = snapshot.grid[Front(m)]
                /\ grid[Front(m)] = None

\* ------------------------------------------------------------------------
\* A move against a drop or against the closing of a Door
\* ------------------------------------------------------------------------
\* agent z issues drop toward cell p
DropsToward(z, p) == actions[z] = ActDrop /\ Front(z) = p

\* agent z issues a toggle it is permitted, on the open Door in cell p
ClosesDoorIn(z, p) ==
    /\ actions[z] = ActToggle
    /\ Front(z) = p
    /\ snapshot.grid[p] \in Doors
    /\ snapshot.is_open[snapshot.grid[p]]
    /\ MaCheckToggle(snapshot, snapshot.grid[p], z)

\* C34: when one agent issues move-forward into a cell and another agent in
\* the same tick issues drop toward that cell, carrying something or not, or
\* a permitted toggle that would close the open Door in that cell, neither
\* action takes effect: the mover stays, the other agent carries what it
\* carried, the cell holds no entity it did not hold and the Door that was
\* to be closed is open.
C34_MoveAgainstDropOrCloseFails ==
    Ticked =>
        \A m, z \in Agents :
            (/\ m # z
             /\ actions[m] = ActForward
             /\ DropsToward(z, Front(m)) \/ ClosesDoorIn(z, Front(m))) =>
                /\ ~Moved(m)
                /\ carrying_objects[z] = snapshot.carrying_objects[z]
                /\ grid[Front(m)] \in {snapshot.grid[Front(m)], None}
                /\ ClosesDoorIn(z, Front(m)) => is_open[snapshot.grid[Front(m)]]

\* an agent moves toward the open yellow Door while another one toggles it
\* from the other side; both are where and as they were
C34_Witness ==
    /\ Ticked
    /\ \E m, z \in Agents :
          /\ m # z
          /\ actions[m] = ActForward
          /\ ClosesDoorIn(z, Front(m))
          /\ snapshot.grid[Front(m)] = DoorYellow
          /\ is_open[DoorYellow]
          /\ ~Moved(m)

\* ------------------------------------------------------------------------
\* Agents whose pickup or toggle is not legal
\* ------------------------------------------------------------------------
\* agent i issues pickup on the liftable entity of another colour in cell p,
\* or toggle on the locked Door in p without a Key of the Door's colour
IllegalAt(i, p) ==
    /\ Front(i) = p
    /\ snapshot.grid[p] # None
    /\ \/ /\ actions[i] = ActPickup
          /\ ObjType(snapshot.grid[p]) \in {"key", "ball", "box"}
          /\ ~MaCanPickup(snapshot.grid[p], i)
       \/ /\ actions[i] = ActToggle
          /\ snapshot.grid[p] \in Doors
          /\ snapshot.is_locked[snapshot.grid[p]]
          /\ ~MaCheckToggle(snapshot, snapshot.grid[p], i)

\* q is the one agent that makes a legal pickup or a permitted toggle on p
SoleLegalAt(q, p) ==
    Claimants(ActPickup, p) \cup Claimants(ActToggle, p) = {q}

\* the action of the legal agent q on cell p took effect
SucceededAt(q, p) ==
    IF actions[q] = ActPickup
    THEN /\ carrying_objects[q] = snapshot.grid[p]
         /\ grid[p] # snapshot.grid[p]
    ELSE /\ snapshot.grid[p] \in Doors
         /\ is_open[snapshot.grid[p]] = ~snapshot.is_open[snapshot.grid[p]]
         /\ ~is_locked[snapshot.grid[p]]

\* the action of the illegal agent i changed nothing of the agent
NoEffectOf(i) ==
    /\ ~Moved(i)
    /\ agent_dirs[i] = snapshot.agent_dirs[i]
    /\ carrying_objects[i] = snapshot.carrying_objects[i]

\* C35 as stated: when an agent's pickup is not legal (the entity has
\* another colour) or its toggle is not permitted (locked Door, no matching
\* Key) and exactly one other agent makes a legal pickup or a permitted
\* toggle on the same cell in the tick, the other agent's action succeeds
\* and the illegal agent's action has no effect.
C35_LegalClaimantSucceeds ==
    Ticked =>
        \A i, q \in Agents : \A p \in Cells :
            (i # q /\ IllegalAt(i, p) /\ SoleLegalAt(q, p)) =>
                SucceededAt(q, p) /\ NoEffectOf(i)

\* C35 with the precondition the engine needs: the legal agent that issues
\* pickup carries nothing before the tick.
C35_FreeLegalClaimantSucceeds ==
    Ticked =>
        \A i, q \in Agents : \A p \in Cells :
            (/\ i # q
             /\ IllegalAt(i, p)
             /\ SoleLegalAt(q, p)
             /\ actions[q] = ActPickup => snapshot.carrying_objects[q] = None) =>
                SucceededAt(q, p) /\ NoEffectOf(i)

\* the red agent toggles the locked green Door without a Key while the
\* green agent, carrying the green Key, toggles it too: the Door is open
C35_Witness ==
    /\ Ticked
    /\ IllegalAt(0, <<4, 2>>)
    /\ SoleLegalAt(1, <<4, 2>>)
    /\ snapshot.carrying_objects[1] = KeyGreen
    /\ is_open[DoorGreen]
    /\ ~is_locked[DoorGreen]

\* ------------------------------------------------------------------------
\* Window coordinates
\* ------------------------------------------------------------------------
\* a window has been laid out for the observer
Viewed == variant = "view" /\ window_mask # {}

Observer == CHOOSE a \in window_mask : TRUE

\* C36: for every direction 0..3 of the agent and every cell of the grid
\* inside the agent's view window, get_view_coords gives the position the
\* cell takes in the window obtained by slicing at get_view_exts and
\* rotating left direction + 1 times; the agent's own cell is at the
\* bottom-centre anchor (S // 2, S - 1).
C36_ViewCoordsMatchRotatedSlice ==
    Viewed =>
        /\ \A q \in ViewCells :
              InBounds(window.where[q]) => window.coords[window.where[q]] = q
        /\ \A p \in Cells :
              window.coords[p] \in ViewCells => window.where[window.coords[p]] = p
        /\ window.coords[agent_poses[Observer]] = Anchor

\* an observer facing up with the other agent ahead of it to its left: the
\* other agent's cell is in the window, off the observer's column
C36_Witness ==
    /\ Viewed
    /\ agent_dirs[Observer] = Up
    /\ \E b \in Agents :
          /\ b # Observer
          /\ agent_poses[b][1] < agent_poses[Observer][1]
          /\ agent_poses[b][2] < agent_poses[Observer][2]
          /\ window.coords[agent_poses[b]] \in ViewCells
          /\ window.coords[agent_poses[b]][1] < Anchor[1]
          /\ window.where[window.coords[agent_poses[b]]] = agent_poses[b]

\* ------------------------------------------------------------------------
\* The colour of what an agent carries
\* ------------------------------------------------------------------------
\* the Door d was locked before the tick and is not after it
Unlocked(d) == snapshot.is_locked[d] /\ ~is_locked[d]

\* C37: in every reachable state of the multi-agent engine each agent
\* carries nothing or one entity, and an entity carried by agent i has the
\* palette colour of index i modulo 6; a locked Door of colour c is unlocked
\* only in a tick in which an agent whose index is congruent to c's colour
\* index modulo 6 toggles it.
C37_CarriedColourIsAgentColour ==
    variant \in {"multi", "multigoal"} =>
        /\ \A a \in Agents :
              carrying_objects[a] # None =>
                  /\ carrying_objects[a] \in KeyRed .. BoxGreen
                  /\ COLOR_TO_IDX(ObjColor(carrying_objects[a])) = a % NumColors
        /\ Ticked =>
              \A d \in Doors :
                  Unlocked(d) =>
                      \E a \in Agents :
                          /\ actions[a] = ActToggle
                          /\ snapshot.grid[Front(a)] = d
                          /\ COLOR_TO_IDX(ObjColor(d)) = a % NumColors

\* the green agent (index 1) has just unlocked the green Door with the green
\* key it carries
C37_Witness ==
    /\ variant = "multi"
    /\ Ticked
    /\ Unlocked(DoorGreen)
    /\ actions[1] = ActToggle
    /\ carrying_objects[1] = KeyGreen

\* ------------------------------------------------------------------------
\* The states of a Door
\* ------------------------------------------------------------------------
\* C38: under any sequence of toggles, in the single-agent and in the
\* multi-agent engine, a Door that is not locked before a step is not locked
\* after it, and no Door is open and locked at once (every Door starts
\* closed): a Door is locked and closed, closed, or open, and never becomes
\* locked.
C38_DoorNeverRelocks ==
    /\ \A d \in Doors : ~(is_open[d] /\ is_locked[d])
    /\ step_count > 0 =>
          \A d \in Doors : ~snapshot.is_locked[d] => ~is_locked[d]

\* in the single-agent engine the green Door, locked at reset and unlocked
\* since, has just been closed by a toggle and is closed and not locked
C38_Witness ==
    /\ variant = "single"
    /\ Ticked
    /\ actions[0] = ActToggle
    /\ snapshot.is_open[DoorGreen]
    /\ ~snapshot.is_locked[DoorGreen]
    /\ ~is_open[DoorGreen]
    /\ ~is_locked[DoorGreen]

\* ------------------------------------------------------------------------
\* The bounds of the grid
\* ------------------------------------------------------------------------
\* C39: every border cell holds a Wall at reset and the agents start on
\* interior cells; then in every reachable state of the multi-agent engine
\* the position and the forward cell of every agent lie inside the grid, and
\* no step() call has ended in the assertion of Grid.get or Grid.set.
C39_AgentsStayInsideGrid ==
    variant = "multi" =>
        /\ \A a \in Agents :
              /\ InBounds(agent_poses[a])
              /\ InBounds(FrontPos(World, a))
        /\ raised # "AssertionError"

\* an agent next to the border has issued move-forward at the Wall it faces
\* and stands where it stood
C39_Witness ==
    /\ variant = "multi"
    /\ Ticked
    /\ \E a \in Agents :
          /\ actions[a] = ActForward
          /\ snapshot.grid[Front(a)] # None
          /\ ObjType(snapshot.grid[Front(a)]) = "wall"
          /\ (Front(a)[1] \in {0, GridWidth - 1} \/ Front(a)[2] \in {0, GridHeight - 1})
          /\ ~Moved(a)
          /\ grid[Front(a)] = snapshot.grid[Front(a)]

\* ------------------------------------------------------------------------
\* One agent in the multi-agent engine
\* ------------------------------------------------------------------------
\* C40: with one agent (index 0), no Box in the grid and every liftable
\* entity of agent 0's colour, the multi-agent step() leaves the agent's
\* position, direction and carried entity, the grid and the Doors' states as
\* the single-agent step() leaves them from the same state, and returns the
\* same reward and done flag, for each of the seven actions.
C40_OneAgentStepsAsSingleEngine ==
    (variant = "both" /\ step_count > 0) =>
        /\ twin.raised = raised
        /\ twin.w = World
        /\ twin.reward = reward
        /\ twin.done = done

\* the agent, carrying the red key, has just unlocked the red Door
C40_Witness ==
    /\ variant = "both"
    /\ Ticked
    /\ actions[0] = ActToggle
    /\ carrying_objects[0] = KeyRed
    /\ snapshot.is_locked[DoorRed]
    /\ is_open[DoorRed]
    /\ ~is_locked[DoorRed]
    /\ twin.w = World

====
